---- MODULE Spec2Model ----
(***************************************************************************)
(* Security state machine of the Hive panel: the in-memory login attempt   *)
(* tracker (html/utils/loginAttempts), the session validation middleware,  *)
(* the login route, the permission resolver with the requirePermission     *)
(* middleware, and the field cipher (html/utils/encryption) with the       *)
(* e-mail route that uses it.                                              *)
(*                                                                         *)
(* Time is the value of Date.now() in milliseconds.  The clock starts at a *)
(* positive value (Date.now() is never 0), so the timestamp 0 stands for   *)
(* JavaScript's null / undefined in lockedUntil and lastActivity.          *)
(***************************************************************************)
EXTENDS Integers, Sequences, FiniteSets, TLC

\* ---------------------------------------------------------------- bounds
MaxTicks == 2          \* clock advances per behaviour
MaxCount == 21         \* failures held in the attempt map at once
MaxRestarts == 1       \* process restarts per behaviour
MaxLoginCount == 6     \* failures the login route records into the map
MaxLoginTicks == 1     \* clock advances while login handlers interleave
MaxTrackerTicks == 1   \* clock advances between calls of the tracker alone
MaxRoles == 2          \* role-ids a principal holds
MaxClientAttempts == 21  \* failed attempts the browser counts per identifier
MaxClientWaits == 16     \* locks of the browser that are waited out
MaxList == 2           \* permissions in a list handed to a list check

Identifiers == {"alice", "bob"}   \* usernames submitted to the login route
SessionIds == {"s1", "s2"}        \* session cookies
Handlers == {"h1", "h2"}          \* concurrently running login handlers

\* ------------------------------------------------------- configuration
lockout5Attempts  == 15 * 60 * 1000
lockout10Attempts == 60 * 60 * 1000
lockout20Attempts == 24 * 60 * 60 * 1000
inactivityTimeout == 10 * 60 * 1000
MAX_AGE           == 24 * 60 * 60 * 1000

\* amounts by which the clock advances between two steps: inside and at the
\* end of each lockout tier, at the retention ceiling and just beyond it
TickSteps == {inactivityTimeout \div 2, lockout5Attempts, lockout10Attempts,
              MAX_AGE, MAX_AGE + inactivityTimeout \div 2}

VARIABLES
    now,            \* Date.now()
    ticks,          \* number of clock advances so far
    loginAttempts,  \* the Map identifier -> attempt record
    lastCall,       \* the last attempt-tracker call and what it returned
    RESTART_TOKEN,  \* generation token of the running process
    sessions,       \* session store: session id -> session data
    handlers,       \* login handlers suspended at an await
    response,       \* the last HTTP response sent
    principal,      \* the user object handed to the permission resolver
    roleStore,      \* roles.json: role id -> permissions of the role
    permCall,       \* the last permission check and what it returned
    guardCall,      \* the last request through requirePermission
    ENCRYPTION_KEY, \* process.env.ENCRYPTION_KEY
    encryptions,    \* the values encrypt has returned so far
    storedEmail,    \* users.email of the account of the session
    cipherCall,     \* the last call of the field cipher or of PUT /email
    inflight,       \* requests between sessionValidation and their response
    roleTable,      \* MySQL role_permissions: role id -> permission names
    authInfo,       \* the user object of the last login or status response
    pairResponses,  \* the answers to one wrong password for two usernames
    rateLimitData,  \* the browser's localStorage entry hive_rate_limit
    clientCall      \* the last call of the browser's RateLimit module

trackerVars == <<loginAttempts, lastCall>>
webVars == <<RESTART_TOKEN, sessions, handlers, response>>
permVars == <<principal, roleStore, permCall, guardCall>>
cipherVars == <<ENCRYPTION_KEY, encryptions, storedEmail, cipherCall>>
moreVars == <<inflight, roleTable, authInfo, pairResponses, rateLimitData,
              clientCall>>
vars == <<now, ticks, loginAttempts, lastCall, RESTART_TOKEN, sessions, handlers,
          response, principal, roleStore, permCall, guardCall,
          ENCRYPTION_KEY, encryptions, storedEmail, cipherCall,
          inflight, roleTable, authInfo, pairResponses, rateLimitData,
          clientCall>>

NoLock == 0

\* ------------------------------------------------------ attempt tracker
\* lockoutDuration with the thresholds tested lowest first
lockoutDuration_lowestFirst(count) ==
    IF count >= 5 THEN lockout5Attempts
    ELSE IF count >= 10 THEN lockout10Attempts
    ELSE lockout20Attempts

\* the lockout duration recordFailedAttempt picks for a count >= 5
lockoutDuration(count) ==
    IF count >= 20 THEN lockout20Attempts
    ELSE IF count >= 10 THEN lockout10Attempts
    ELSE lockout5Attempts

\* the record recordFailedAttempt stores for identifier at time t
recordedAttempt(la, identifier, t) ==
    LET attempts == IF identifier \in DOMAIN la THEN la[identifier]
                    ELSE [count |-> 0, firstAttempt |-> t,
                          lastAttempt |-> t, lockedUntil |-> NoLock]
        count == attempts.count + 1
    IN [count |-> count,
        firstAttempt |-> attempts.firstAttempt,
        lastAttempt |-> t,
        lockedUntil |-> IF count >= 5 THEN t + lockoutDuration(count)
                        ELSE attempts.lockedUntil]

\* Map.set
MapSet(la, identifier, rec) ==
    [i \in DOMAIN la \cup {identifier} |-> IF i = identifier THEN rec ELSE la[i]]

\* Map.delete
MapDelete(la, ids) == [i \in DOMAIN la \ ids |-> la[i]]

\* isLockedResult with the expiry test now > lockedUntil
isLockedResult_strictExpiry(la, identifier, t) ==
    IF identifier \notin DOMAIN la \/ la[identifier].lockedUntil = NoLock
    THEN [isLocked |-> FALSE, remainingTime |-> 0]
    ELSE IF t > la[identifier].lockedUntil
    THEN [isLocked |-> FALSE, remainingTime |-> 0]
    ELSE [isLocked |-> TRUE, remainingTime |-> la[identifier].lockedUntil - t]

\* what isLocked returns
isLockedResult(la, identifier, t) ==
    IF identifier \notin DOMAIN la \/ la[identifier].lockedUntil = NoLock
    THEN [isLocked |-> FALSE, remainingTime |-> 0]
    ELSE IF t >= la[identifier].lockedUntil
    THEN [isLocked |-> FALSE, remainingTime |-> 0]
    ELSE [isLocked |-> TRUE, remainingTime |-> la[identifier].lockedUntil - t]

\* isLockedEffect deleting the whole record when the lock has expired
isLockedEffect_dropsRecord(la, identifier, t) ==
    IF identifier \in DOMAIN la /\ la[identifier].lockedUntil # NoLock
       /\ t >= la[identifier].lockedUntil
    THEN MapDelete(la, {identifier})
    ELSE la

\* isLockedEffect counting a probe of a locked identifier as an attempt
isLockedEffect_countsProbe(la, identifier, t) ==
    IF identifier \in DOMAIN la /\ la[identifier].lockedUntil # NoLock
    THEN IF t >= la[identifier].lockedUntil
         THEN MapSet(la, identifier,
                     [la[identifier] EXCEPT !.lockedUntil = NoLock])
         ELSE MapSet(la, identifier,
                     [la[identifier] EXCEPT !.count = @ + 1])
    ELSE la

\* isLockedEffect removing the lock it finds, expired or not
isLockedEffect_clearsLock(la, identifier, t) ==
    IF identifier \in DOMAIN la /\ la[identifier].lockedUntil # NoLock
    THEN MapSet(la, identifier, [la[identifier] EXCEPT !.lockedUntil = NoLock])
    ELSE la

\* the map isLocked leaves behind: an expired lock is removed
isLockedEffect(la, identifier, t) ==
    IF identifier \in DOMAIN la /\ la[identifier].lockedUntil # NoLock
       /\ t >= la[identifier].lockedUntil
    THEN MapSet(la, identifier, [la[identifier] EXCEPT !.lockedUntil = NoLock])
    ELSE la

\* resetAttempts emptying the whole map
resetAttempts_clearsAll(la, identifier) == MapDelete(la, DOMAIN la)

\* resetAttempts zeroing the count but keeping the record and its lock
resetAttempts_keepsLock(la, identifier) ==
    IF identifier \in DOMAIN la
    THEN MapSet(la, identifier, [la[identifier] EXCEPT !.count = 0])
    ELSE la

\* the map resetAttempts leaves behind
resetAttempts(la, identifier) == MapDelete(la, {identifier})

getAttemptCount(la, identifier) ==
    IF identifier \in DOMAIN la THEN la[identifier].count ELSE 0

\* cleanup sparing the records that are still locked
cleanupDeletes_unlockedOnly(la, t) ==
    {i \in DOMAIN la : /\ t - la[i].firstAttempt > MAX_AGE
                       /\ ~(la[i].lockedUntil # NoLock
                            /\ t < la[i].lockedUntil)}

\* cleanupDeletes with the age test age >= MAX_AGE
cleanupDeletes_inclusive(la, t) ==
    {i \in DOMAIN la : t - la[i].firstAttempt >= MAX_AGE}

\* the entries cleanup deletes at time t
cleanupDeletes(la, t) == {i \in DOMAIN la : t - la[i].firstAttempt > MAX_AGE}

\* failures held in the whole map (bounds the exploration)
RECURSIVE SumCounts(_, _)
SumCounts(la, ids) ==
    IF ids = {} THEN 0
    ELSE LET i == CHOOSE x \in ids : TRUE
         IN la[i].count + SumCounts(la, ids \ {i})

TotalCount(la) == SumCounts(la, DOMAIN la)

NoCall == [op |-> "none", id |-> "", attempts |-> 0, lockedUntil |-> NoLock,
           isLocked |-> FALSE, remainingTime |-> 0]

recordCall(identifier, rec) ==
    [NoCall EXCEPT !.op = "recordFailedAttempt", !.id = identifier,
                   !.attempts = rec.count, !.lockedUntil = rec.lockedUntil]

isLockedCall(identifier, r) ==
    [NoCall EXCEPT !.op = "isLocked", !.id = identifier,
                   !.isLocked = r.isLocked, !.remainingTime = r.remainingTime]

\* a resetAttempts call at time t; isLocked tells whether it found a live lock
resetCall(la, identifier, t) ==
    [NoCall EXCEPT !.op = "resetAttempts", !.id = identifier,
                   !.isLocked = /\ identifier \in DOMAIN la
                                /\ la[identifier].lockedUntil > t]

\* ----------------------------------------------------------- principals
\* the accounts of the user store; "bob" has no account
Accounts == {"alice"}

getUserByUsername(username) ==
    IF username \in Accounts
    THEN [id |-> 1, username |-> username, role |-> "user"]
    ELSE [id |-> 0, username |-> "", role |-> ""]

\* verifyUserPassword returning the user without comparing the password
verifyUserPassword_noCompare(username, passwordOk, storeOk) ==
    IF storeOk /\ username \in Accounts
    THEN getUserByUsername(username)
    ELSE getUserByUsername("")

\* verifyUserPassword: the user when the account exists, the store answers
\* and the password matches the hash; null (id 0) otherwise
verifyUserPassword(username, passwordOk, storeOk) ==
    IF storeOk /\ username \in Accounts /\ passwordOk
    THEN getUserByUsername(username)
    ELSE getUserByUsername("")

\* ------------------------------------------------------------- sessions
\* a session without userId (new, or destroyed)
NoSession == [userId |-> 0, username |-> "", role |-> "", loginTime |-> 0,
              lastActivity |-> 0, restartToken |-> 0]

\* initializeSession leaving the restart token out
initializeSession_noToken(session, user, t, token) ==
    [session EXCEPT !.userId = user.id, !.username = user.username,
                    !.role = user.role, !.loginTime = t, !.lastActivity = t]

initializeSession(session, user, t, token) ==
    [session EXCEPT !.userId = user.id,
                    !.username = user.username,
                    !.role = user.role,
                    !.loginTime = t,
                    !.lastActivity = t,
                    !.restartToken = token]

Paths == {"/", "/api/auth/status", "/account.html", "/api/csrf-token"}
publicRoutes == {"/api/auth/login", "/api/csrf-token", "/api/recaptcha-config"}
\* the paths that end in a static-file extension
staticFiles == {"/account.html"}

\* sessionValidation with the inactivity test before the token test
sessionValidation_inactivityFirst(session, path, t, token) ==
    IF path \in publicRoutes THEN
        [next |-> TRUE, status |-> 0, reason |-> "", session |-> session]
    ELSE IF path \in staticFiles THEN
        [next |-> TRUE, status |-> 0, reason |-> "", session |-> session]
    ELSE IF session.userId = 0 THEN
        [next |-> TRUE, status |-> 0, reason |-> "", session |-> session]
    ELSE IF session.lastActivity # 0
            /\ t - session.lastActivity > inactivityTimeout THEN
        [next |-> FALSE, status |-> 401, reason |-> "inactivity_timeout",
         session |-> NoSession]
    ELSE IF session.restartToken # token THEN
        [next |-> FALSE, status |-> 401, reason |-> "server_restart",
         session |-> NoSession]
    ELSE
        [next |-> TRUE, status |-> 0, reason |-> "",
         session |-> [session EXCEPT !.lastActivity = t]]

\* sessionValidation with the inactivity test inactiveTime >= timeout
sessionValidation_inclusiveTimeout(session, path, t, token) ==
    IF path \in publicRoutes THEN
        [next |-> TRUE, status |-> 0, reason |-> "", session |-> session]
    ELSE IF path \in staticFiles THEN
        [next |-> TRUE, status |-> 0, reason |-> "", session |-> session]
    ELSE IF session.userId = 0 THEN
        [next |-> TRUE, status |-> 0, reason |-> "", session |-> session]
    ELSE IF session.restartToken # token THEN
        [next |-> FALSE, status |-> 401, reason |-> "server_restart",
         session |-> NoSession]
    ELSE IF session.lastActivity # 0
            /\ t - session.lastActivity >= inactivityTimeout THEN
        [next |-> FALSE, status |-> 401, reason |-> "inactivity_timeout",
         session |-> NoSession]
    ELSE
        [next |-> TRUE, status |-> 0, reason |-> "",
         session |-> [session EXCEPT !.lastActivity = t]]

\* sessionValidation measuring the window from loginTime
sessionValidation_absoluteAge(session, path, t, token) ==
    IF path \in publicRoutes THEN
        [next |-> TRUE, status |-> 0, reason |-> "", session |-> session]
    ELSE IF path \in staticFiles THEN
        [next |-> TRUE, status |-> 0, reason |-> "", session |-> session]
    ELSE IF session.userId = 0 THEN
        [next |-> TRUE, status |-> 0, reason |-> "", session |-> session]
    ELSE IF session.restartToken # token THEN
        [next |-> FALSE, status |-> 401, reason |-> "server_restart",
         session |-> NoSession]
    ELSE IF session.loginTime # 0
            /\ t - session.loginTime > inactivityTimeout THEN
        [next |-> FALSE, status |-> 401, reason |-> "inactivity_timeout",
         session |-> NoSession]
    ELSE
        [next |-> TRUE, status |-> 0, reason |-> "",
         session |-> [session EXCEPT !.lastActivity = t]]

\* sessionValidation without the exemption of static files
sessionValidation_checksStatic(session, path, t, token) ==
    IF path \in publicRoutes THEN
        [next |-> TRUE, status |-> 0, reason |-> "", session |-> session]
    ELSE IF session.userId = 0 THEN
        [next |-> TRUE, status |-> 0, reason |-> "", session |-> session]
    ELSE IF session.restartToken # token THEN
        [next |-> FALSE, status |-> 401, reason |-> "server_restart",
         session |-> NoSession]
    ELSE IF session.lastActivity # 0
            /\ t - session.lastActivity > inactivityTimeout THEN
        [next |-> FALSE, status |-> 401, reason |-> "inactivity_timeout",
         session |-> NoSession]
    ELSE
        [next |-> TRUE, status |-> 0, reason |-> "",
         session |-> [session EXCEPT !.lastActivity = t]]

\* sessionValidation: what it answers and the session it leaves behind
sessionValidation(session, path, t, token) ==
    IF path \in publicRoutes THEN
        [next |-> TRUE, status |-> 0, reason |-> "", session |-> session]
    ELSE IF path \in staticFiles THEN
        [next |-> TRUE, status |-> 0, reason |-> "", session |-> session]
    ELSE IF session.userId = 0 THEN
        [next |-> TRUE, status |-> 0, reason |-> "", session |-> session]
    ELSE IF session.restartToken # token THEN
        [next |-> FALSE, status |-> 401, reason |-> "server_restart",
         session |-> NoSession]
    ELSE IF session.lastActivity # 0
            /\ t - session.lastActivity > inactivityTimeout THEN
        [next |-> FALSE, status |-> 401, reason |-> "inactivity_timeout",
         session |-> NoSession]
    ELSE
        [next |-> TRUE, status |-> 0, reason |-> "",
         session |-> [session EXCEPT !.lastActivity = t]]

\* the route handlers behind the middleware: GET /api/auth/status reports
\* authenticated, GET /account.html sends the page, when session.userId is
\* set; GET / redirects a live session to the dashboard
routeHandler(session, path, t) ==
    IF path = "/" THEN
        IF session.userId # 0 /\ session.lastActivity # 0
           /\ t - session.lastActivity < inactivityTimeout
        THEN [status |-> 302, authenticated |-> TRUE]
        ELSE [status |-> 200, authenticated |-> FALSE]
    ELSE IF path = "/api/auth/status" THEN
        [status |-> 200, authenticated |-> session.userId # 0]
    ELSE IF path = "/account.html" THEN
        IF session.userId = 0
        THEN [status |-> 302, authenticated |-> FALSE]
        ELSE [status |-> 200, authenticated |-> TRUE]
    ELSE [status |-> 200, authenticated |-> FALSE]

NoResponse == [kind |-> "none", sid |-> "", path |-> "", status |-> 0,
               reason |-> "", authenticated |-> FALSE, username |-> "",
               remainingAttempts |-> 0]

IdleHandler == [pc |-> "idle", username |-> "", passwordOk |-> FALSE, sid |-> ""]

loginResponse(h, status) ==
    [NoResponse EXCEPT !.kind = "login", !.sid = handlers[h].sid,
                       !.path = "/api/auth/login", !.status = status]

\* -------------------------------------------------- permission resolver
ROLES == [SUPERADMIN |-> "superadmin", ADMIN |-> "admin", USER |-> "user"]

PERMISSIONS == [MANAGE_ACCOUNTS |-> "manage_accounts",
                VIEW_ACCOUNTS |-> "view_accounts",
                MANAGE_ROLES |-> "manage_roles",
                HANDLE_REQUESTS |-> "handle_requests",
                ADMIN_ALL |-> "admin_all"]

\* Object.values(PERMISSIONS)
AllPermissions == {PERMISSIONS[k] : k \in DOMAIN PERMISSIONS}

\* the roles defined in roles.json; a principal may also hold an id that
\* the file does not define
KnownRoles == {"r1", "r2"}
RoleIds == KnownRoles \cup {"ghost"}

\* the permission strings handed to a check: defined ones, the wildcard,
\* one that is not defined, and the empty string
PermStrings == AllPermissions \cup {"*", "edit_x", ""}

isSuperAdmin(user) == user.role = ROLES.SUPERADMIN

isUserAdmin(user) == PERMISSIONS.ADMIN_ALL \in user.permissions

\* hasWildcard looking for the escalation permission instead of '*'
hasWildcard_adminAll(user) == PERMISSIONS.ADMIN_ALL \in user.permissions

hasWildcard(user) == "*" \in user.permissions

\* getRolePermissions granting every defined permission for a role id the
\* file does not define
getRolePermissions_unknownGrantsAll(store, roleId) ==
    IF roleId \in DOMAIN store THEN store[roleId] ELSE AllPermissions

\* a role the file does not define, and a read that throws, both give []
getRolePermissions(store, roleId) ==
    IF roleId \in DOMAIN store THEN store[roleId] ELSE {}

\* the loop of getAllUserPermissions over user.roles
RECURSIVE addRolePermissions(_, _, _)
addRolePermissions(permissions, roles, store) ==
    IF roles = <<>> THEN permissions
    ELSE LET added == permissions \cup getRolePermissions(store, Head(roles))
         IN IF "*" \in added \/ PERMISSIONS.ADMIN_ALL \in added
            THEN AllPermissions
            ELSE addRolePermissions(added, Tail(roles), store)

getAllUserPermissions(user, store) ==
    IF isSuperAdmin(user) THEN AllPermissions
    ELSE IF isUserAdmin(user) THEN AllPermissions
    ELSE IF hasWildcard(user) THEN AllPermissions
    ELSE addRolePermissions(user.permissions, user.roles, store)

hasPermission(user, permission, store) ==
    IF permission = "" THEN FALSE
    ELSE IF isSuperAdmin(user) THEN TRUE
    ELSE IF isUserAdmin(user) THEN TRUE
    ELSE IF hasWildcard(user) THEN TRUE
    ELSE permission \in getAllUserPermissions(user, store)

\* hasAnyPermission without the three early returns
hasAnyPermission_loopOnly(user, permissions, store) ==
    \E i \in DOMAIN permissions : hasPermission(user, permissions[i], store)

\* permissions is an array here; the loop returns true at the first
\* permission the principal has
hasAnyPermission(user, permissions, store) ==
    IF isSuperAdmin(user) THEN TRUE
    ELSE IF isUserAdmin(user) THEN TRUE
    ELSE IF hasWildcard(user) THEN TRUE
    ELSE \E i \in DOMAIN permissions :
            hasPermission(user, permissions[i], store)

\* hasAllPermissions without the three early returns
hasAllPermissions_loopOnly(user, permissions, store) ==
    \A i \in DOMAIN permissions : hasPermission(user, permissions[i], store)

\* the loop returns false at the first permission the principal lacks
hasAllPermissions(user, permissions, store) ==
    IF isSuperAdmin(user) THEN TRUE
    ELSE IF isUserAdmin(user) THEN TRUE
    ELSE IF hasWildcard(user) THEN TRUE
    ELSE \A i \in DOMAIN permissions :
            hasPermission(user, permissions[i], store)

\* roles.json as the resolver sees it when the reads of the role ids in
\* failed throw: getRolePermissions catches and returns []
readableRoles(store, failed) ==
    [r \in DOMAIN store \ failed |-> store[r]]

\* requirePermission testing forceDisablePermissions before the session
requirePermission_forceDisableFirst(authenticated, forceDisable, userOk, user, permissions, store) ==
    IF forceDisable THEN "next"
    ELSE IF ~authenticated THEN "401"
    ELSE IF ~userOk THEN "401"
    ELSE IF isSuperAdmin(user) THEN "next"
    ELSE IF hasAnyPermission(user, permissions, store) THEN "next"
    ELSE "403"

\* the answer of the requirePermission middleware: "next" or the status of
\* the refusal.  forceDisable is config.forceDisablePermissions; userOk is
\* false when a query of getUserByUsername throws (it returns null then).
requirePermission(authenticated, forceDisable, userOk, user, permissions, store) ==
    IF ~authenticated THEN "401"
    ELSE IF forceDisable THEN "next"
    ELSE IF ~userOk THEN "401"
    ELSE IF isSuperAdmin(user) THEN "next"
    ELSE IF hasAnyPermission(user, permissions, store) THEN "next"
    ELSE "403"

NoPrincipal == [role |-> "user", permissions |-> {}, roles |-> <<>>]
NoPermCall == [op |-> "none", permission |-> "", result |-> FALSE]
NoGuardCall == [op |-> "none", permissions |-> <<>>, authenticated |-> FALSE,
                forceDisablePermissions |-> FALSE, userOk |-> TRUE,
                failed |-> {}, status |-> ""]

\* the role lists a principal can hold
RoleLists == UNION {[1..n -> RoleIds] : n \in 0..MaxRoles}

\* ---------------------------------------------------------- field cipher
\* A byte of the model has two bits.  A text is a sequence of UTF-16 code
\* units out of "a", "b", "U+FFFD" and "U+D800", a surrogate without its
\* partner; a code unit is one byte in UTF-8.
IV_LENGTH == 16
SALT_LENGTH == 64
TAG_LENGTH == 16

Bits == 0..1

\* the values of process.env.ENCRYPTION_KEY: not set, 31 characters long,
\* and two secrets that are long enough
NoKey == [id |-> 0, length |-> 0]
Keys == {NoKey, [id |-> 1, length |-> 31], [id |-> 2, length |-> 32],
         [id |-> 3, length |-> 40]}

\* the texts handed to encrypt: none, a well-formed one, an ill-formed one
Plaintexts == {<<>>, <<"a", "U+FFFD">>, <<"b", "U+D800">>}

\* what crypto.randomBytes can return: the draw in the first byte
Nonces == {1, 2}

xor(a, b) ==
    (((a % 2) + (b % 2)) % 2) + 2 * (((a \div 2) + (b \div 2)) % 2)

\* Buffer.from(text, 'utf8') as cipher.update(text, 'utf8') does it: a
\* surrogate without partner is written as U+FFFD
utf8Encode(text) ==
    [i \in DOMAIN text |->
        CASE text[i] = "a" -> 1
          [] text[i] = "b" -> 2
          [] text[i] = "U+FFFD" -> 3
          [] text[i] = "U+D800" -> 3]

\* buffer.toString('utf8')
utf8Decode(bytes) ==
    [i \in DOMAIN bytes |->
        CASE bytes[i] = 0 -> "U+0000"
          [] bytes[i] = 1 -> "a"
          [] bytes[i] = 2 -> "b"
          [] bytes[i] = 3 -> "U+FFFD"]

\* randomBytes returning the same bytes at every call
randomBytes_constant(size, draw) == [i \in 1..size |-> 0]

\* crypto.randomBytes(size); draw tells the values apart
randomBytes(size, draw) == [i \in 1..size |-> IF i = 1 THEN draw ELSE 0]

\* Buffer.slice losing the last byte of the range
slice_dropsLast(buffer, start, end) == SubSeq(buffer, start + 1, end - 1)

\* buffer.slice(start, end), offsets counted from 0, end excluded
slice(buffer, start, end) == SubSeq(buffer, start + 1, end)

\* getEncryptionKey accepting a secret of any length
getEncryptionKey_noLengthCheck(key) ==
    IF key.length = 0 THEN [threw |-> TRUE, key |-> key]
    ELSE [threw |-> FALSE, key |-> key]

getEncryptionKey(key) ==
    IF key.length = 0 THEN [threw |-> TRUE, key |-> key]
    ELSE IF key.length < 32 THEN [threw |-> TRUE, key |-> key]
    ELSE [threw |-> FALSE, key |-> key]

isEncryptionConfigured(key) == key.length # 0 /\ key.length >= 32

\* crypto.pbkdf2Sync: different passwords or salts, different keys
deriveKey(password, salt) == <<password.id, salt>>

\* the key stream of AES in counter mode
keystream(key, iv, i) == (key[1] + key[2][1] + iv[1] + i) % 4

aesGcmUpdate(key, iv, input) ==
    [i \in DOMAIN input |-> xor(input[i], keystream(key, iv, i))]

\* the authentication tag of GCM, TAG_LENGTH bytes: the tags of two
\* different (key, iv, ciphertext) of this model differ, and the tags of two
\* different keys differ in more than one bit
getAuthTag(key, iv, encrypted) ==
    [i \in 1..TAG_LENGTH |->
        CASE i = 1 -> key[1]
          [] i = 2 -> 3 - key[1]
          [] i = 3 -> key[2][1]
          [] i = 4 -> Len(key[2]) % 4
          [] i = 5 -> iv[1]
          [] i = 6 -> Len(iv) % 4
          [] i = 7 -> Len(encrypted)
          [] i > 7 /\ i - 7 <= Len(encrypted) -> encrypted[i - 7]
          [] OTHER -> 0]

\* null is the empty value; threw is the Error encrypt and decrypt throw
Null == <<>>
Threw == [threw |-> TRUE, value |-> Null]
Returned(value) == [threw |-> FALSE, value |-> value]

encrypt(text, envKey, ivDraw, saltDraw) ==
    IF text = <<>> THEN Returned(Null)
    ELSE IF getEncryptionKey(envKey).threw THEN Threw
    ELSE LET encryptionKey == getEncryptionKey(envKey).key
             iv == randomBytes(IV_LENGTH, ivDraw)
             salt == randomBytes(SALT_LENGTH, saltDraw)
             key == deriveKey(encryptionKey, salt)
             encrypted == aesGcmUpdate(key, iv, utf8Encode(text))
             authTag == getAuthTag(key, iv, encrypted)
         IN Returned(salt \o iv \o authTag \o encrypted)

\* decrypt never comparing the authentication tag
decrypt_noAuthTag(encryptedData, envKey) ==
    IF encryptedData = <<>> THEN Returned(Null)
    ELSE IF getEncryptionKey(envKey).threw THEN Threw
    ELSE LET encryptionKey == getEncryptionKey(envKey).key
             combined == encryptedData
             salt == slice(combined, 0, SALT_LENGTH)
             iv == slice(combined, SALT_LENGTH, SALT_LENGTH + IV_LENGTH)
             encrypted == slice(combined,
                                SALT_LENGTH + IV_LENGTH + TAG_LENGTH,
                                Len(combined))
             key == deriveKey(encryptionKey, salt)
         IN Returned(utf8Decode(aesGcmUpdate(key, iv, encrypted)))

\* decipher.final throws when the tag handed to setAuthTag is not the tag
\* of (key, iv, encrypted)
decrypt(encryptedData, envKey) ==
    IF encryptedData = <<>> THEN Returned(Null)
    ELSE IF getEncryptionKey(envKey).threw THEN Threw
    ELSE LET encryptionKey == getEncryptionKey(envKey).key
             combined == encryptedData
             salt == slice(combined, 0, SALT_LENGTH)
             iv == slice(combined, SALT_LENGTH, SALT_LENGTH + IV_LENGTH)
             authTag == slice(combined, SALT_LENGTH + IV_LENGTH,
                              SALT_LENGTH + IV_LENGTH + TAG_LENGTH)
             encrypted == slice(combined,
                                SALT_LENGTH + IV_LENGTH + TAG_LENGTH,
                                Len(combined))
             key == deriveKey(encryptionKey, salt)
         IN IF authTag # getAuthTag(key, iv, encrypted) THEN Threw
            ELSE Returned(utf8Decode(aesGcmUpdate(key, iv, encrypted)))

\* one bit of the value changed: in the tag or in the ciphertext
NoTamper == [region |-> "none", byte |-> 0, bit |-> 0]
Tampers(blob) ==
    {NoTamper}
    \cup [region : {"tag"}, byte : 1..TAG_LENGTH, bit : Bits]
    \cup [region : {"ciphertext"},
          byte : 1..(Len(blob) - SALT_LENGTH - IV_LENGTH - TAG_LENGTH),
          bit : Bits]

tampered(blob, tamper) ==
    LET offset == IF tamper.region = "tag" THEN SALT_LENGTH + IV_LENGTH
                  ELSE SALT_LENGTH + IV_LENGTH + TAG_LENGTH
    IN IF tamper.region = "none" THEN blob
       ELSE [blob EXCEPT ![offset + tamper.byte] =
                            xor(@, IF tamper.bit = 0 THEN 1 ELSE 2)]

NoCipherCall == [op |-> "none", text |-> <<>>, index |-> 0,
                 tamper |-> NoTamper, key |-> NoKey, threw |-> FALSE,
                 value |-> <<>>, status |-> ""]

\* the draws randomBytes has returned for the IV and for the salt
usedIvs == {encryptions[i].ivDraw : i \in DOMAIN encryptions}
usedSalts == {encryptions[i].saltDraw : i \in DOMAIN encryptions}

\* ------------------------------------------- requests in flight, client
Requests == {"q1", "q2"}
IdleRequest ==
    [pc |-> "idle", sid |-> "", path |-> "", loaded |-> NoSession,
     session |-> NoSession]
NoAuthInfo == [op |-> "none", authenticated |-> FALSE, permissions |-> {}]
NoClientCall == [op |-> "none", id |-> "", attempts |-> 0, isLocked |-> FALSE,
                 remainingTime |-> 0, counted |-> FALSE, duration |-> 0]

\* the state of the parts that a specification does not exercise
InitMore ==
    /\ inflight = [q \in Requests |-> IdleRequest]
    /\ roleTable = [r \in KnownRoles |-> {}]
    /\ authInfo = NoAuthInfo
    /\ pairResponses = [registration |-> "none", answers |-> <<>>]
    /\ rateLimitData = <<>>
    /\ clientCall = NoClientCall

\* --------------------------------------------------------------- system
Init ==
    /\ now = 1
    /\ ticks = 0
    /\ loginAttempts = <<>>
    /\ lastCall = NoCall
    /\ RESTART_TOKEN = 1
    /\ sessions = [s \in SessionIds |-> NoSession]
    /\ handlers = [h \in Handlers |-> IdleHandler]
    /\ response = NoResponse
    /\ principal = NoPrincipal
    /\ roleStore = [r \in KnownRoles |-> {}]
    /\ permCall = NoPermCall
    /\ guardCall = NoGuardCall
    /\ ENCRYPTION_KEY = NoKey
    /\ encryptions = <<>>
    /\ storedEmail = <<>>
    /\ cipherCall = NoCipherCall
    /\ InitMore

\* the clock advances
Tick(d) ==
    /\ ticks < MaxTicks
    /\ now' = now + d
    /\ ticks' = ticks + 1
    /\ lastCall' = [NoCall EXCEPT !.op = "tick"]
    /\ response' = NoResponse
    /\ UNCHANGED <<loginAttempts, RESTART_TOKEN, sessions, handlers, permVars, cipherVars, moreVars>>

\* ------------------------------------------- attempt tracker, called alone
RecordFailedAttempt(identifier) ==
    /\ TotalCount(loginAttempts) < MaxCount
    /\ LET rec == recordedAttempt(loginAttempts, identifier, now)
       IN /\ loginAttempts' = MapSet(loginAttempts, identifier, rec)
          /\ lastCall' = recordCall(identifier, rec)
    /\ UNCHANGED <<now, ticks, webVars, permVars, cipherVars, moreVars>>

IsLocked(identifier) ==
    /\ lastCall' = isLockedCall(identifier,
                                isLockedResult(loginAttempts, identifier, now))
    /\ loginAttempts' = isLockedEffect(loginAttempts, identifier, now)
    /\ UNCHANGED <<now, ticks, webVars, permVars, cipherVars, moreVars>>

ResetAttempts(identifier) ==
    /\ loginAttempts' = resetAttempts(loginAttempts, identifier)
    /\ lastCall' = resetCall(loginAttempts, identifier, now)
    /\ UNCHANGED <<now, ticks, webVars, permVars, cipherVars, moreVars>>

\* the hourly setInterval(cleanup)
Cleanup ==
    /\ loginAttempts' = MapDelete(loginAttempts, cleanupDeletes(loginAttempts, now))
    /\ lastCall' = [NoCall EXCEPT !.op = "cleanup"]
    /\ UNCHANGED <<now, ticks, webVars, permVars, cipherVars, moreVars>>

NextTracker ==
    \/ ticks < MaxTrackerTicks /\ \E d \in TickSteps : Tick(d)
    \/ \E i \in Identifiers : RecordFailedAttempt(i)
    \/ \E i \in Identifiers : IsLocked(i)
    \/ \E i \in Identifiers : ResetAttempts(i)
    \/ Cleanup

SpecTracker == Init /\ [][NextTracker]_vars

\* ------------------------------------------------------ POST /api/auth/login
\* the handler up to its first await: the lock gate
LoginGate(h, username, passwordOk, sid) ==
    /\ handlers[h].pc = "idle"
    /\ LET lockStatus == isLockedResult(loginAttempts, username, now)
       IN /\ lastCall' = isLockedCall(username, lockStatus)
          /\ loginAttempts' = isLockedEffect(loginAttempts, username, now)
          /\ IF lockStatus.isLocked
             THEN /\ response' = [NoResponse EXCEPT !.kind = "login", !.sid = sid,
                                      !.path = "/api/auth/login", !.status = 429]
                  /\ UNCHANGED handlers
             ELSE /\ handlers' = [handlers EXCEPT ![h] =
                                     [pc |-> "registration", username |-> username,
                                      passwordOk |-> passwordOk, sid |-> sid]]
                  /\ response' = NoResponse
    /\ UNCHANGED <<now, ticks, RESTART_TOKEN, sessions, permVars, cipherVars, moreVars>>

\* the registration_requests query returns (or throws)
LoginRegistration(h, status) ==
    /\ handlers[h].pc = "registration"
    /\ IF status = "none"
       THEN /\ handlers' = [handlers EXCEPT ![h].pc = "recaptcha"]
            /\ response' = NoResponse
       ELSE /\ handlers' = [handlers EXCEPT ![h] = IdleHandler]
            /\ response' = loginResponse(h, IF status = "error" THEN 500 ELSE 403)
    /\ lastCall' = NoCall
    /\ UNCHANGED <<now, ticks, loginAttempts, RESTART_TOKEN, sessions, permVars, cipherVars, moreVars>>

\* verifyRecaptcha returns (config.recaptcha.enabled: both keys are configured)
LoginRecaptcha(h, success) ==
    /\ handlers[h].pc = "recaptcha"
    /\ IF success
       THEN /\ handlers' = [handlers EXCEPT ![h].pc = "verify"]
            /\ response' = NoResponse
       ELSE /\ handlers' = [handlers EXCEPT ![h] = IdleHandler]
            /\ response' = loginResponse(h, 400)
    /\ lastCall' = NoCall
    /\ UNCHANGED <<now, ticks, loginAttempts, RESTART_TOKEN, sessions, permVars, cipherVars, moreVars>>

\* verifyUserPassword returns; the handler runs to its response
LoginVerify(h, storeOk) ==
    /\ handlers[h].pc = "verify"
    /\ LET username == handlers[h].username
           sid == handlers[h].sid
           user == verifyUserPassword(username, handlers[h].passwordOk, storeOk)
       IN IF user.id # 0
          THEN /\ loginAttempts' = resetAttempts(loginAttempts, username)
               /\ lastCall' = resetCall(loginAttempts, username, now)
               /\ sessions' = [sessions EXCEPT ![sid] =
                                  initializeSession(@, user, now, RESTART_TOKEN)]
               /\ response' = [loginResponse(h, 200) EXCEPT
                                  !.authenticated = TRUE,
                                  !.username = user.username]
          ELSE /\ TotalCount(loginAttempts) < MaxLoginCount
               /\ LET rec == recordedAttempt(loginAttempts, username, now)
                      remaining == IF 5 - rec.count > 0 THEN 5 - rec.count ELSE 0
                  IN /\ loginAttempts' = MapSet(loginAttempts, username, rec)
                     /\ lastCall' = recordCall(username, rec)
                     /\ response' = [loginResponse(h, 401) EXCEPT
                                        !.remainingAttempts = remaining]
               /\ UNCHANGED sessions
    /\ handlers' = [handlers EXCEPT ![h] = IdleHandler]
    /\ UNCHANGED <<now, ticks, RESTART_TOKEN, permVars, cipherVars, moreVars>>

\* POST /api/auth/logout
Logout(sid) ==
    /\ sessions' = [sessions EXCEPT ![sid] = NoSession]
    /\ response' = [NoResponse EXCEPT !.kind = "logout", !.sid = sid,
                       !.path = "/api/auth/logout", !.status = 200]
    /\ lastCall' = NoCall
    /\ UNCHANGED <<now, ticks, loginAttempts, RESTART_TOKEN, handlers, permVars, cipherVars, moreVars>>

\* any other request: sessionValidation, then the route handler
Request(sid, path) ==
    /\ LET v == sessionValidation(sessions[sid], path, now, RESTART_TOKEN)
           r == routeHandler(v.session, path, now)
       IN /\ sessions' = [sessions EXCEPT ![sid] = v.session]
          /\ response' = IF v.next
                         THEN [NoResponse EXCEPT !.kind = "request", !.sid = sid,
                                  !.path = path, !.status = r.status,
                                  !.authenticated = r.authenticated]
                         ELSE [NoResponse EXCEPT !.kind = "request", !.sid = sid,
                                  !.path = path, !.status = v.status,
                                  !.reason = v.reason]
    /\ lastCall' = NoCall
    /\ UNCHANGED <<now, ticks, loginAttempts, RESTART_TOKEN, handlers, permVars, cipherVars, moreVars>>

\* the process restarts: a new token, an empty attempt map, no handler
\* survives; the session files stay on disk
Restart ==
    /\ RESTART_TOKEN <= MaxRestarts
    /\ RESTART_TOKEN' = RESTART_TOKEN + 1
    /\ loginAttempts' = <<>>
    /\ handlers' = [h \in Handlers |-> IdleHandler]
    /\ lastCall' = NoCall
    /\ response' = NoResponse
    /\ UNCHANGED <<now, ticks, sessions, permVars, cipherVars, moreVars>>

\* the session life cycle: logins of the account holder, requests, logout,
\* process restarts
NextSession ==
    \/ \E d \in {inactivityTimeout \div 2, lockout5Attempts} : Tick(d)
    \/ \E u \in Accounts, sid \in SessionIds : LoginGate("h1", u, TRUE, sid)
    \/ \E st \in {"none", "pending", "rejected", "error"} :
          LoginRegistration("h1", st)
    \/ \E ok \in BOOLEAN : LoginRecaptcha("h1", ok)
    \/ LoginVerify("h1", TRUE)
    \/ \E sid \in SessionIds : Logout(sid)
    \/ \E sid \in SessionIds, p \in Paths : Request(sid, p)
    \/ Restart

SpecSession == Init /\ [][NextSession]_vars

\* concurrent login requests against the attempt tracker
NextLogin ==
    \/ ticks < MaxLoginTicks /\ Tick(lockout5Attempts)
    \/ \E h \in Handlers, u \in Identifiers, pw \in BOOLEAN :
          LoginGate(h, u, pw, "s1")
    \/ \E h \in Handlers, st \in {"none", "pending", "rejected", "error"} :
          LoginRegistration(h, st)
    \/ \E h \in Handlers, ok \in BOOLEAN : LoginRecaptcha(h, ok)
    \/ \E h \in Handlers, ok \in BOOLEAN : LoginVerify(h, ok)

SpecLogin == Init /\ [][NextLogin]_vars
\* ------------------------------------------------ permission checks alone
InitPerm ==
    /\ now = 1
    /\ ticks = 0
    /\ loginAttempts = <<>>
    /\ lastCall = NoCall
    /\ RESTART_TOKEN = 1
    /\ sessions = [s \in SessionIds |-> NoSession]
    /\ handlers = [h \in Handlers |-> IdleHandler]
    /\ response = NoResponse
    /\ principal \in [role : {"superadmin", "admin", "user"},
                      permissions : SUBSET {"view_accounts", "admin_all", "*"},
                      roles : RoleLists]
    /\ roleStore \in [KnownRoles -> SUBSET {"edit_x", "*", "admin_all"}]
    /\ permCall = NoPermCall
    /\ guardCall = NoGuardCall
    /\ ENCRYPTION_KEY = NoKey
    /\ encryptions = <<>>
    /\ storedEmail = <<>>
    /\ cipherCall = NoCipherCall
    /\ InitMore

HasPermission(permission) ==
    /\ permCall' = [op |-> "hasPermission", permission |-> permission,
                    result |-> hasPermission(principal, permission, roleStore)]
    /\ UNCHANGED <<now, ticks, trackerVars, webVars, cipherVars, moreVars, principal, roleStore,
                   guardCall>>

NextPerm ==
    \E x \in PermStrings : HasPermission(x)

SpecPerm == InitPerm /\ [][NextPerm]_vars

\* ------------------------------------------------- edits of a role
\* a principal and an empty roles.json; the edits fill the roles
InitRoleEdit ==
    /\ now = 1
    /\ ticks = 0
    /\ loginAttempts = <<>>
    /\ lastCall = NoCall
    /\ RESTART_TOKEN = 1
    /\ sessions = [s \in SessionIds |-> NoSession]
    /\ handlers = [h \in Handlers |-> IdleHandler]
    /\ response = NoResponse
    /\ principal \in [role : {"superadmin", "admin", "user"},
                      permissions : SUBSET {"view_accounts", "*"},
                      roles : RoleLists]
    /\ roleStore = [r \in KnownRoles |-> {}]
    /\ permCall = NoPermCall
    /\ guardCall = NoGuardCall
    /\ ENCRYPTION_KEY = NoKey
    /\ encryptions = <<>>
    /\ storedEmail = <<>>
    /\ cipherCall = NoCipherCall
    /\ InitMore

\* permission x is added to the permissions of role r in roles.json
RolesFileAdd(r, x) ==
    /\ x \notin roleStore[r]
    /\ roleStore' = [roleStore EXCEPT ![r] = @ \cup {x}]
    /\ permCall' = [op |-> "rolesFileAdd", permission |-> x, result |-> TRUE]
    /\ UNCHANGED <<now, ticks, trackerVars, webVars, cipherVars, moreVars, principal, guardCall>>

NextRoleEdit ==
    \E r \in KnownRoles, x \in {"edit_x", "manage_roles", "*", "admin_all"} :
        RolesFileAdd(r, x)

SpecRoleEdit == InitRoleEdit /\ [][NextRoleEdit]_vars

\* ------------------------------------- list checks and the route guard
\* the permission lists handed to a check
PermLists ==
    UNION {[1..n -> {"", "view_accounts", "edit_x"}] : n \in 0..MaxList}

InitGuard ==
    /\ now = 1
    /\ ticks = 0
    /\ loginAttempts = <<>>
    /\ lastCall = NoCall
    /\ RESTART_TOKEN = 1
    /\ sessions = [s \in SessionIds |-> NoSession]
    /\ handlers = [h \in Handlers |-> IdleHandler]
    /\ response = NoResponse
    /\ principal \in [role : {"superadmin", "admin", "user"},
                      permissions : SUBSET {"edit_x", "admin_all", "*"},
                      roles : {<<>>, <<"r1">>, <<"r1", "r2">>,
                               <<"ghost", "r2">>}]
    /\ roleStore \in [KnownRoles -> SUBSET {"edit_x", "*"}]
    /\ permCall = NoPermCall
    /\ guardCall = NoGuardCall
    /\ ENCRYPTION_KEY = NoKey
    /\ encryptions = <<>>
    /\ storedEmail = <<>>
    /\ cipherCall = NoCipherCall
    /\ InitMore

HasAnyPermission(permissions) ==
    /\ guardCall' = [NoGuardCall EXCEPT
                        !.op = "hasAnyPermission",
                        !.permissions = permissions,
                        !.status = IF hasAnyPermission(principal, permissions,
                                                       roleStore)
                                   THEN "true" ELSE "false"]
    /\ UNCHANGED <<now, ticks, trackerVars, webVars, cipherVars, moreVars, principal, roleStore,
                   permCall>>

HasAllPermissions(permissions) ==
    /\ guardCall' = [NoGuardCall EXCEPT
                        !.op = "hasAllPermissions",
                        !.permissions = permissions,
                        !.status = IF hasAllPermissions(principal, permissions,
                                                        roleStore)
                                   THEN "true" ELSE "false"]
    /\ UNCHANGED <<now, ticks, trackerVars, webVars, cipherVars, moreVars, principal, roleStore,
                   permCall>>

NextPermList ==
    \E xs \in PermLists : HasAnyPermission(xs) \/ HasAllPermissions(xs)

SpecPermList == InitGuard /\ [][NextPermList]_vars

\* a request through requirePermission(permissions); principal is the row
\* set of the session's user, failed the role ids whose read throws
RequirePermission(authenticated, forceDisable, userOk, failed, permissions) ==
    /\ guardCall' = [op |-> "requirePermission",
                     permissions |-> permissions,
                     authenticated |-> authenticated,
                     forceDisablePermissions |-> forceDisable,
                     userOk |-> userOk,
                     failed |-> failed,
                     status |-> requirePermission(
                                    authenticated, forceDisable,
                                    userOk, principal, permissions,
                                    readableRoles(roleStore, failed))]
    /\ UNCHANGED <<now, ticks, trackerVars, webVars, cipherVars, moreVars, principal, roleStore,
                   permCall>>

NextGuard ==
    \E authenticated \in BOOLEAN, forceDisable \in BOOLEAN,
       userOk \in BOOLEAN, failed \in SUBSET KnownRoles,
       permissions \in {<<"edit_x">>, <<"view_accounts">>,
                        <<"view_accounts", "edit_x">>} :
        RequirePermission(authenticated, forceDisable, userOk, failed,
                          permissions)

\* ---- role and account edits through the admin routes
\* the rows of the MySQL table permissions
defaultPermissions ==
    {"manage_accounts", "view_accounts", "manage_roles", "handle_requests",
     "admin_all", "view_absences", "manage_absences"}

InitRoleAdmin ==
    /\ now = 1
    /\ ticks = 0
    /\ loginAttempts = <<>>
    /\ lastCall = NoCall
    /\ RESTART_TOKEN = 1
    /\ sessions = [s \in SessionIds |-> NoSession]
    /\ handlers = [h \in Handlers |-> IdleHandler]
    /\ response = NoResponse
    /\ principal \in [role : {"user"}, permissions : {{}},
                      roles : {<<>>, <<"r1">>}]
    /\ roleStore \in [KnownRoles -> SUBSET {"view_accounts"}]
    /\ permCall = NoPermCall
    /\ guardCall = NoGuardCall
    /\ ENCRYPTION_KEY = NoKey
    /\ encryptions = <<>>
    /\ storedEmail = <<>>
    /\ cipherCall = NoCipherCall
    /\ inflight = [q \in Requests |-> IdleRequest]
    /\ roleTable = roleStore
    /\ authInfo = NoAuthInfo
    /\ pairResponses = [registration |-> "none", answers |-> <<>>]
    /\ rateLimitData = <<>>
    /\ clientCall = NoClientCall

\* PUT /api/admin/roles/:id with a permissions array
RoleUpdate(r, permissions) ==
    /\ roleTable' = [roleTable EXCEPT
                        ![r] = permissions \cap defaultPermissions]
    /\ guardCall' = [NoGuardCall EXCEPT !.op = "PUT /roles/:id"]
    /\ UNCHANGED <<now, ticks, trackerVars, webVars, cipherVars, principal,
                   roleStore, permCall, inflight, authInfo, pairResponses,
                   rateLimitData, clientCall>>

\* PUT /api/admin/accounts/:username with permissions and roles arrays
AccountUpdate(permissions, roles) ==
    /\ principal' = [principal EXCEPT
                        !.permissions = permissions \cap defaultPermissions,
                        !.roles = SelectSeq(roles,
                                            LAMBDA r : r \in DOMAIN roleTable)]
    /\ guardCall' = [NoGuardCall EXCEPT !.op = "PUT /accounts/:username"]
    /\ UNCHANGED <<now, ticks, trackerVars, webVars, cipherVars, moreVars,
                   roleStore, permCall>>

NextRoleAdmin ==
    \/ \E r \in KnownRoles, permissions \in SUBSET {"view_accounts", "edit_x"} :
            RoleUpdate(r, permissions)
    \/ \E permissions \in SUBSET {"view_accounts", "edit_x"},
          roles \in {<<>>, <<"r1">>, <<"r2", "ghost">>} :
            AccountUpdate(permissions, roles)
    \/ \E permissions \in {<<"view_accounts">>, <<"manage_roles">>} :
            RequirePermission(TRUE, FALSE, TRUE, {}, permissions)

SpecRoleAdmin == InitRoleAdmin /\ [][NextRoleAdmin]_vars

\* ---- one wrong password for two usernames, one request after the other
\* the failure branch of POST /login: verifyUserPassword returned null
loginFailure_accountsOnly(la, username, t) ==
    IF getUserByUsername(username).id # 0
    THEN MapSet(la, username, recordedAttempt(la, username, t))
    ELSE la

loginFailure(la, username, t) ==
    MapSet(la, username, recordedAttempt(la, username, t))

\* POST /login with a wrong password, run from the gate to its response;
\* registration is the status of the username's registration request
loginWrongPassword(la, username, registration, t) ==
    LET lockStatus == isLockedResult(la, username, t)
        gated == isLockedEffect(la, username, t)
        user == verifyUserPassword(username, FALSE, TRUE)
        failed == loginFailure(gated, username, t)
        attempts == getAttemptCount(failed, username)
    IN IF lockStatus.isLocked
       THEN [la |-> gated,
             answer |-> [status |-> 429, remainingAttempts |-> 0,
                         minutes |-> (lockStatus.remainingTime + 59999)
                                         \div 60000]]
       ELSE IF registration \in {"pending", "rejected"}
       THEN [la |-> gated,
             answer |-> [status |-> 403, remainingAttempts |-> 0,
                         minutes |-> 0]]
       ELSE IF user.id # 0
       THEN [la |-> resetAttempts(gated, username),
             answer |-> [status |-> 200, remainingAttempts |-> 0,
                         minutes |-> 0]]
       ELSE [la |-> failed,
             answer |-> [status |-> 401,
                         remainingAttempts |->
                             IF 5 - attempts > 0 THEN 5 - attempts ELSE 0,
                         minutes |-> 0]]

InitEnumeration ==
    /\ now = 1
    /\ ticks = 0
    /\ loginAttempts = <<>>
    /\ lastCall = NoCall
    /\ RESTART_TOKEN = 1
    /\ sessions = [s \in SessionIds |-> NoSession]
    /\ handlers = [h \in Handlers |-> IdleHandler]
    /\ response = NoResponse
    /\ principal = NoPrincipal
    /\ roleStore = [r \in KnownRoles |-> {}]
    /\ permCall = NoPermCall
    /\ guardCall = NoGuardCall
    /\ ENCRYPTION_KEY = NoKey
    /\ encryptions = <<>>
    /\ storedEmail = <<>>
    /\ cipherCall = NoCipherCall
    /\ inflight = [q \in Requests |-> IdleRequest]
    /\ roleTable = [r \in KnownRoles |-> {}]
    /\ authInfo = NoAuthInfo
    /\ pairResponses \in [registration : {"none", "pending", "rejected"},
                          answers : {<<>>}]
    /\ rateLimitData = <<>>
    /\ clientCall = NoClientCall

\* the same wrong-password request for an account's username u and for a
\* username v without account
WrongPasswordBoth(u, v) ==
    /\ getAttemptCount(loginAttempts, u) < MaxCount
    /\ LET first == loginWrongPassword(loginAttempts, u, "none", now)
           second == loginWrongPassword(first.la, v,
                                        pairResponses.registration, now)
       IN /\ loginAttempts' = second.la
          /\ pairResponses' = [pairResponses EXCEPT
                                  !.answers = <<first.answer, second.answer>>]
    /\ lastCall' = NoCall
    /\ response' = NoResponse
    /\ UNCHANGED <<now, ticks, RESTART_TOKEN, sessions, handlers, permVars,
                   cipherVars, inflight, roleTable, authInfo, rateLimitData,
                   clientCall>>

NextEnumeration ==
    \/ \E d \in TickSteps : Tick(d)
    \/ \E u \in Accounts, v \in Identifiers \ Accounts : WrongPasswordBoth(u, v)

SpecEnumeration == InitEnumeration /\ [][NextEnumeration]_vars

\* ---- concurrent requests on one session
\* a request arrives: express-session loads the stored session into
\* req.session and sessionValidation takes its own timestamp; a rejection
\* destroys the stored session and answers at once
RequestBegin(q, sid, path) ==
    /\ inflight[q].pc = "idle"
    /\ LET v == sessionValidation(sessions[sid], path, now, RESTART_TOKEN)
       IN IF v.next
          THEN /\ inflight' = [inflight EXCEPT ![q] =
                                  [pc |-> "handler", sid |-> sid, path |-> path,
                                   loaded |-> sessions[sid],
                                   session |-> v.session]]
               /\ response' = NoResponse
               /\ UNCHANGED sessions
          ELSE /\ sessions' = [sessions EXCEPT ![sid] = v.session]
               /\ response' = [NoResponse EXCEPT !.kind = "request", !.sid = sid,
                                  !.path = path, !.status = v.status,
                                  !.reason = v.reason]
               /\ UNCHANGED inflight
    /\ lastCall' = NoCall
    /\ UNCHANGED <<now, ticks, loginAttempts, RESTART_TOKEN, handlers, permVars,
                   cipherVars, roleTable, authInfo, pairResponses,
                   rateLimitData, clientCall>>

\* the route handler answers: at the end of the response express-session
\* writes req.session to the store when it differs from what was loaded
\* (resave: false)
RequestEnd(q) ==
    /\ inflight[q].pc = "handler"
    /\ LET req == inflight[q]
           r == routeHandler(req.session, req.path, now)
       IN /\ sessions' = IF req.session # req.loaded
                         THEN [sessions EXCEPT ![req.sid] = req.session]
                         ELSE sessions
          /\ response' = [NoResponse EXCEPT !.kind = "request",
                             !.sid = req.sid, !.path = req.path,
                             !.status = r.status,
                             !.authenticated = r.authenticated]
    /\ inflight' = [inflight EXCEPT ![q] = IdleRequest]
    /\ lastCall' = NoCall
    /\ UNCHANGED <<now, ticks, loginAttempts, RESTART_TOKEN, handlers, permVars,
                   cipherVars, roleTable, authInfo, pairResponses,
                   rateLimitData, clientCall>>

NextConcurrent ==
    \/ \E d \in {1, inactivityTimeout} : Tick(d)
    \/ \E u \in Accounts : LoginGate("h1", u, TRUE, "s1")
    \/ LoginRegistration("h1", "none")
    \/ LoginRecaptcha("h1", TRUE)
    \/ LoginVerify("h1", TRUE)
    \/ \E q \in Requests, p \in {"/api/auth/status", "/api/csrf-token"} :
          RequestBegin(q, "s1", p)
    \/ \E q \in Requests : RequestEnd(q)

SpecConcurrent == Init /\ [][NextConcurrent]_vars

\* ---- what a login tells the client about the principal's permissions
\* req.session.permissions || []
sessionPermissions(session) ==
    IF "permissions" \in DOMAIN session THEN session.permissions ELSE {}

\* POST /login, verifyUserPassword returned the principal's user object
LoginSuccess(sid) ==
    /\ sessions' = [sessions EXCEPT ![sid] =
                       initializeSession(@, [id |-> 1, username |-> "alice",
                                             role |-> principal.role],
                                         now, RESTART_TOKEN)]
    /\ authInfo' = [op |-> "login", authenticated |-> TRUE,
                    permissions |-> sessionPermissions(sessions'[sid])]
    /\ UNCHANGED <<now, ticks, trackerVars, RESTART_TOKEN, handlers, response,
                   permVars, cipherVars, inflight, roleTable, pairResponses,
                   rateLimitData, clientCall>>

\* GET /api/auth/status
AuthStatus(sid) ==
    /\ authInfo' = IF sessions[sid].userId # 0
                   THEN [op |-> "status", authenticated |-> TRUE,
                         permissions |-> sessionPermissions(sessions[sid])]
                   ELSE [op |-> "status", authenticated |-> FALSE,
                         permissions |-> {}]
    /\ UNCHANGED <<now, ticks, trackerVars, webVars, permVars, cipherVars,
                   inflight, roleTable, pairResponses, rateLimitData,
                   clientCall>>

NextLoginInfo ==
    \E sid \in SessionIds : LoginSuccess(sid) \/ AuthStatus(sid)

SpecLoginInfo == InitGuard /\ [][NextLoginInfo]_vars

\* ---- the browser's RateLimit module (js/ratelimit.js)
\* the last rule's threshold is Infinity: no count reaches it
LOCKOUT_RULES ==
    <<[attempts |-> 5, infinite |-> FALSE, duration |-> 1 * 60 * 1000],
      [attempts |-> 10, infinite |-> FALSE, duration |-> 5 * 60 * 1000],
      [attempts |-> 20, infinite |-> FALSE, duration |-> 60 * 60 * 1000],
      [attempts |-> 0, infinite |-> TRUE, duration |-> 24 * 60 * 60 * 1000]>>

\* new Date(t).toISOString() and new Date(s).getTime(); null is <<>>
toISOString(t) == <<"ISO", t>>
getTime(s) == s[2]

getRateLimitData(allData, identifier) ==
    IF identifier \in DOMAIN allData THEN allData[identifier]
    ELSE [attempts |-> 0, lockedUntil |-> <<>>, lastAttempt |-> <<>>]

checkLockout(allData, identifier, t) ==
    LET data == getRateLimitData(allData, identifier)
    IN IF data.lockedUntil = <<>>
       THEN [isLocked |-> FALSE, remainingTime |-> 0]
       ELSE IF t >= getTime(data.lockedUntil)
       THEN [isLocked |-> FALSE, remainingTime |-> 0]
       ELSE [isLocked |-> TRUE,
             remainingTime |-> getTime(data.lockedUntil) - t]

\* the rule loop of recordFailedAttempt: from the last rule down, the first
\* whose threshold the count has reached, else the first rule
lockoutRule(attempts) ==
    LET reached == {i \in 1..Len(LOCKOUT_RULES) :
                       /\ ~LOCKOUT_RULES[i].infinite
                       /\ attempts >= LOCKOUT_RULES[i].attempts}
    IN IF reached = {} THEN LOCKOUT_RULES[1]
       ELSE LOCKOUT_RULES[CHOOSE i \in reached : \A j \in reached : j <= i]

\* RateLimit.recordFailedAttempt(identifier) at time t: the stored data it
\* leaves and the call it reports
recordFailedAttempt(allData, identifier, t) ==
    LET data == getRateLimitData(allData, identifier)
        lockout == checkLockout(allData, identifier, t)
        attempts == data.attempts + 1
        saved == MapSet(allData, identifier,
                        [attempts |-> attempts,
                         lockedUntil |->
                             IF attempts >= 5
                             THEN toISOString(t + lockoutRule(attempts).duration)
                             ELSE data.lockedUntil,
                         lastAttempt |-> toISOString(t)])
        newLockout == checkLockout(saved, identifier, t)
    IN IF lockout.isLocked
       THEN [allData |-> allData,
             call |-> [op |-> "recordFailedAttempt", id |-> identifier,
                       attempts |-> data.attempts, isLocked |-> TRUE,
                       remainingTime |-> lockout.remainingTime,
                       counted |-> FALSE, duration |-> 0]]
       ELSE [allData |-> saved,
             call |-> [op |-> "recordFailedAttempt", id |-> identifier,
                       attempts |-> attempts,
                       isLocked |-> newLockout.isLocked,
                       remainingTime |-> newLockout.remainingTime,
                       counted |-> TRUE,
                       duration |-> newLockout.remainingTime]]

\* the entries RateLimit.cleanupExpired deletes at time t
cleanupExpired(allData, t) ==
    {i \in DOMAIN allData : /\ allData[i].lockedUntil # <<>>
                            /\ t >= getTime(allData[i].lockedUntil)}

ClientRecordFailedAttempt(id) ==
    /\ getRateLimitData(rateLimitData, id).attempts < MaxClientAttempts
    /\ LET r == recordFailedAttempt(rateLimitData, id, now)
       IN /\ rateLimitData' = r.allData
          /\ clientCall' = r.call
    /\ UNCHANGED <<now, ticks, trackerVars, webVars, permVars, cipherVars,
                   inflight, roleTable, authInfo, pairResponses>>

ClientCheckLockout(id) ==
    /\ LET r == checkLockout(rateLimitData, id, now)
       IN clientCall' = [NoClientCall EXCEPT
                            !.op = "checkLockout", !.id = id,
                            !.isLocked = r.isLocked,
                            !.remainingTime = r.remainingTime]
    /\ UNCHANGED <<now, ticks, trackerVars, webVars, permVars, cipherVars,
                   inflight, roleTable, authInfo, pairResponses,
                   rateLimitData>>

\* RateLimit.reset(identifier) after a successful login
ClientReset(id) ==
    /\ rateLimitData' = MapDelete(rateLimitData, {id})
    /\ clientCall' = [NoClientCall EXCEPT !.op = "reset", !.id = id]
    /\ UNCHANGED <<now, ticks, trackerVars, webVars, permVars, cipherVars,
                   inflight, roleTable, authInfo, pairResponses>>

\* RateLimit.cleanupExpired(), on page load and every hour
ClientCleanupExpired ==
    /\ rateLimitData' = MapDelete(rateLimitData,
                                  cleanupExpired(rateLimitData, now))
    /\ clientCall' = [NoClientCall EXCEPT !.op = "cleanupExpired"]
    /\ UNCHANGED <<now, ticks, trackerVars, webVars, permVars, cipherVars,
                   inflight, roleTable, authInfo, pairResponses>>

\* the browser's clock reaches the end of the identifier's lock
ClientWait(id) ==
    /\ ticks < MaxClientWaits
    /\ checkLockout(rateLimitData, id, now).isLocked
    /\ now' = getTime(rateLimitData[id].lockedUntil)
    /\ ticks' = ticks + 1
    /\ clientCall' = [NoClientCall EXCEPT !.op = "wait"]
    /\ UNCHANGED <<trackerVars, webVars, permVars, cipherVars, inflight,
                   roleTable, authInfo, pairResponses, rateLimitData>>

NextClient ==
    \E id \in Accounts :
        \/ ClientRecordFailedAttempt(id)
        \/ ClientCheckLockout(id)
        \/ ClientReset(id)
        \/ ClientCleanupExpired
        \/ ClientWait(id)

SpecClient == Init /\ [][NextClient]_vars

\* ---- one session in one process: a login and requests at varying gaps
NextSliding ==
    \/ \E d \in {inactivityTimeout \div 2, inactivityTimeout,
                inactivityTimeout + 1} : Tick(d)
    \/ \E u \in Accounts : LoginGate("h1", u, TRUE, "s1")
    \/ LoginRegistration("h1", "none")
    \/ LoginRecaptcha("h1", TRUE)
    \/ LoginVerify("h1", TRUE)
    \/ \E p \in Paths : Request("s1", p)

SpecSliding == Init /\ [][NextSliding]_vars

SpecGuard == InitGuard /\ [][NextGuard]_vars
\* ------------------------------------------------- field cipher in use
InitCipher ==
    /\ now = 1
    /\ ticks = 0
    /\ loginAttempts = <<>>
    /\ lastCall = NoCall
    /\ RESTART_TOKEN = 1
    /\ sessions = [s \in SessionIds |-> NoSession]
    /\ handlers = [h \in Handlers |-> IdleHandler]
    /\ response = NoResponse
    /\ principal = NoPrincipal
    /\ roleStore = [r \in KnownRoles |-> {}]
    /\ permCall = NoPermCall
    /\ guardCall = NoGuardCall
    /\ ENCRYPTION_KEY \in Keys
    /\ encryptions = <<>>
    /\ storedEmail = <<>>
    /\ cipherCall = NoCipherCall
    /\ InitMore

\* what a call of encrypt leaves behind; randomBytes is not reached when
\* encrypt returns null or throws before it
recordEncryption(text, result, ivDraw, saltDraw) ==
    IF result.threw \/ result.value = Null THEN encryptions
    ELSE Append(encryptions, [text |-> text, blob |-> result.value,
                              ivDraw |-> ivDraw, saltDraw |-> saltDraw])

\* encrypt(text); when it gets as far as randomBytes, the IV and the salt
\* are values randomBytes has not returned before
Encrypt(text, ivDraw, saltDraw) ==
    /\ (text # <<>> /\ ~getEncryptionKey(ENCRYPTION_KEY).threw)
       => (ivDraw \notin usedIvs /\ saltDraw \notin usedSalts)
    /\ LET result == encrypt(text, ENCRYPTION_KEY, ivDraw, saltDraw)
       IN /\ encryptions' = recordEncryption(text, result, ivDraw, saltDraw)
          /\ cipherCall' = [NoCipherCall EXCEPT
                               !.op = "encrypt", !.text = text,
                               !.key = ENCRYPTION_KEY,
                               !.threw = result.threw,
                               !.value = result.value]
    /\ UNCHANGED <<now, ticks, trackerVars, webVars, permVars, moreVars,
                   ENCRYPTION_KEY, storedEmail>>

\* decrypt of the i-th value encrypt returned, after tamper, by a process
\* whose ENCRYPTION_KEY is key
Decrypt(i, tamper, key) ==
    /\ LET result == decrypt(tampered(encryptions[i].blob, tamper), key)
       IN cipherCall' = [NoCipherCall EXCEPT
                            !.op = "decrypt", !.index = i,
                            !.text = encryptions[i].text,
                            !.tamper = tamper, !.key = key,
                            !.threw = result.threw,
                            !.value = result.value]
    /\ UNCHANGED <<now, ticks, trackerVars, webVars, permVars, moreVars,
                   ENCRYPTION_KEY, encryptions, storedEmail>>

\* PUT /api/account/email of an authenticated session with a valid
\* address; userOk is false when getUserByUsername returns null
EmailUpdate(email, userOk, ivDraw, saltDraw) ==
    /\ (isEncryptionConfigured(ENCRYPTION_KEY) /\ userOk)
       => (ivDraw \notin usedIvs /\ saltDraw \notin usedSalts)
    /\ LET result == encrypt(email, ENCRYPTION_KEY, ivDraw, saltDraw)
           status == IF ~isEncryptionConfigured(ENCRYPTION_KEY) THEN "500"
                     ELSE IF ~userOk THEN "404"
                     ELSE IF result.threw THEN "500"
                     ELSE "200"
       IN /\ cipherCall' = [NoCipherCall EXCEPT
                               !.op = "emailUpdate", !.text = email,
                               !.key = ENCRYPTION_KEY, !.status = status]
          /\ storedEmail' = IF status = "200" THEN result.value
                            ELSE storedEmail
          /\ encryptions' = IF status = "200"
                            THEN recordEncryption(email, result, ivDraw,
                                                  saltDraw)
                            ELSE encryptions
    /\ UNCHANGED <<now, ticks, trackerVars, webVars, permVars, moreVars,
                   ENCRYPTION_KEY>>

NextCipher ==
    \/ \E text \in Plaintexts, ivDraw \in Nonces, saltDraw \in Nonces :
          Encrypt(text, ivDraw, saltDraw)
    \/ \E i \in DOMAIN encryptions :
          \E tamper \in Tampers(encryptions[i].blob),
             key \in {k \in Keys : isEncryptionConfigured(k)} :
                Decrypt(i, tamper, key)
    \/ \E email \in Plaintexts \ {<<>>}, userOk \in BOOLEAN,
          ivDraw \in Nonces, saltDraw \in Nonces :
             EmailUpdate(email, userOk, ivDraw, saltDraw)

SpecCipher == InitCipher /\ [][NextCipher]_vars
\* ================================================================ claims
\* the request that has just been answered, if the last step was a request
\* of session sid to path
Answered(sid, path) ==
    /\ response'.kind = "request"
    /\ response'.sid = sid
    /\ response'.path = path

\* a path that sessionValidation does not skip
NonExempt(path) == path \notin publicRoutes /\ path \notin staticFiles

\* C1: a request to a non-exempt path with an authenticated session whose
\* restartToken differs from the process token is answered 401 with reason
\* server_restart and the session is destroyed, whatever lastActivity is.
C1_RestartRejected ==
    [][\A sid \in SessionIds, path \in Paths :
          (/\ Answered(sid, path)
           /\ NonExempt(path)
           /\ sessions[sid].userId # 0
           /\ sessions[sid].restartToken # RESTART_TOKEN)
          => (/\ response'.status = 401
              /\ response'.reason = "server_restart"
              /\ ~response'.authenticated
              /\ sessions'[sid] = NoSession)]_vars

\* a fresh session (no clock advance since login) rejected after a restart
C1_Witness ==
    /\ response.kind = "request"
    /\ response.reason = "server_restart"
    /\ ticks = 0
    /\ sessions[response.sid] = NoSession

\* C2: with a matching token, a non-exempt request is rejected with
\* inactivity_timeout and the session destroyed when now - lastActivity is
\* strictly greater than the timeout; otherwise it continues and
\* lastActivity becomes now.
C2_InactivityWindow ==
    [][\A sid \in SessionIds, path \in Paths :
          (/\ Answered(sid, path)
           /\ NonExempt(path)
           /\ sessions[sid].userId # 0
           /\ sessions[sid].restartToken = RESTART_TOKEN)
          => IF now - sessions[sid].lastActivity > inactivityTimeout
             THEN /\ response'.status = 401
                  /\ response'.reason = "inactivity_timeout"
                  /\ sessions'[sid] = NoSession
             ELSE /\ response'.reason = ""
                  /\ response'.status # 401
                  /\ sessions'[sid] = [sessions[sid] EXCEPT !.lastActivity = now]]_vars

\* a session accepted after idling for exactly the timeout
C2_Witness ==
    /\ response.kind = "request"
    /\ response.path = "/api/auth/status"
    /\ response.authenticated
    /\ sessions[response.sid].lastActivity = now
    /\ sessions[response.sid].loginTime = now - inactivityTimeout

\* C3: no request carrying a session whose token differs from the process
\* token is served as authenticated, on any path.
C3_StaleSessionNeverServed ==
    (response.kind = "request" /\ response.authenticated)
    => sessions[response.sid].restartToken = RESTART_TOKEN

\* the tiers as a table: (threshold, duration)
Tiers == {<<5, lockout5Attempts>>, <<10, lockout10Attempts>>,
          <<20, lockout20Attempts>>}

\* the duration of the highest tier whose threshold is <= c (c >= 5)
TierDuration(c) ==
    LET met == {t \in Tiers : t[1] <= c}
        top == CHOOSE t \in met : \A u \in met : u[1] <= t[1]
    IN top[2]

\* C4: right after a recordFailedAttempt that brings the count to c,
\* isLocked is true with remainingTime equal to the duration of the highest
\* tier threshold <= c when c >= 5, and false with no lock when c < 5.
C4_LockMatchesTier ==
    lastCall.op = "recordFailedAttempt"
    => LET c == lastCall.attempts
           r == isLockedResult(loginAttempts, lastCall.id, now)
       IN /\ c = getAttemptCount(loginAttempts, lastCall.id)
          /\ IF c >= 5
             THEN /\ r.isLocked
                  /\ r.remainingTime > 0
                  /\ r.remainingTime = TierDuration(c)
                  /\ lastCall.lockedUntil = now + TierDuration(c)
             ELSE /\ ~r.isLocked
                  /\ lastCall.lockedUntil = NoLock

\* the 20th failure locks for the longest tier
C4_Witness ==
    /\ lastCall.op = "recordFailedAttempt"
    /\ lastCall.attempts = 20
    /\ isLockedResult(loginAttempts, lastCall.id, now).remainingTime
          = lockout20Attempts

\* C5: the login route never calls recordFailedAttempt for an identifier
\* whose lock has not expired, under every interleaving of login requests.
C5_NoRecordWhileLocked ==
    [][\A i \in Identifiers :
          (lastCall'.op = "recordFailedAttempt" /\ lastCall'.id = i)
          => ~isLockedResult(loginAttempts, i, now).isLocked]_vars

\* the last step was resetAttempts(i)
WasReset(i) == lastCall'.op = "resetAttempts" /\ lastCall'.id = i

\* the last step was the sweep and it deleted the record of i
WasSwept(i) ==
    /\ lastCall'.op = "cleanup"
    /\ i \in DOMAIN loginAttempts
    /\ now - loginAttempts[i].firstAttempt > 24 * 60 * 60 * 1000

\* an isLocked call that finds the lock of i expired keeps the count and
\* clears only the lock
C6_ExpiryKeepsCount(i) ==
    (/\ lastCall'.op = "isLocked" /\ lastCall'.id = i
     /\ i \in DOMAIN loginAttempts
     /\ loginAttempts[i].lockedUntil # NoLock
     /\ now >= loginAttempts[i].lockedUntil)
    => /\ ~lastCall'.isLocked
       /\ i \in DOMAIN loginAttempts'
       /\ loginAttempts'[i] = [loginAttempts[i] EXCEPT !.lockedUntil = NoLock]

\* the failure after an expired lock adds to the retained count and locks
\* again at once, for at least the duration of the expired tier
C6_Ratchet(i) ==
    (/\ lastCall'.op = "recordFailedAttempt" /\ lastCall'.id = i
     /\ i \in DOMAIN loginAttempts
     /\ loginAttempts[i].count >= 5
     /\ ~isLockedResult(loginAttempts, i, now).isLocked)
    => /\ getAttemptCount(loginAttempts', i) = loginAttempts[i].count + 1
       /\ isLockedResult(loginAttempts', i, now').isLocked
       /\ isLockedResult(loginAttempts', i, now').remainingTime
             >= TierDuration(loginAttempts[i].count)

\* failures of i are lock-free again (count below the first threshold)
\* after a step that found it at or above the threshold
C6_LockFreeAgain(i) ==
    /\ getAttemptCount(loginAttempts, i) >= 5
    /\ getAttemptCount(loginAttempts', i) < 5

\* C6 as claimed: expiry keeps the count, the next failure ratchets, and
\* only resetAttempts makes failures lock-free again.
C6_OnlyResetUnlocks ==
    [][\A i \in Identifiers :
          /\ C6_ExpiryKeepsCount(i)
          /\ C6_Ratchet(i)
          /\ C6_LockFreeAgain(i) => WasReset(i)]_vars

\* C6 as amended: expiry keeps the count, the next failure ratchets, and
\* only resetAttempts or the sweep of a record older than MAX_AGE makes
\* failures lock-free again.
C6_ResetOrSweepUnlocks ==
    [][\A i \in Identifiers :
          /\ C6_ExpiryKeepsCount(i)
          /\ C6_Ratchet(i)
          /\ C6_LockFreeAgain(i) => (WasReset(i) \/ WasSwept(i))]_vars

\* a failure recorded after the tier-2 lock ran out: locked again for tier 2
C6_Witness ==
    /\ lastCall.op = "recordFailedAttempt"
    /\ lastCall.attempts = 11
    /\ ticks >= 1
    /\ loginAttempts[lastCall.id].firstAttempt < now
    /\ lastCall.lockedUntil = now + lockout10Attempts

\* C7: after resetAttempts(id) the count is 0 and isLocked reports not
\* locked, whatever the record was; a successful login has called it for
\* the username that logged in.
C7_ResetClears ==
    /\ lastCall.op = "resetAttempts"
       => /\ getAttemptCount(loginAttempts, lastCall.id) = 0
          /\ ~isLockedResult(loginAttempts, lastCall.id, now).isLocked
    /\ (response.kind = "login" /\ response.status = 200)
       => /\ lastCall.op = "resetAttempts"
          /\ lastCall.id = response.username

\* a successful login that reset a locked record
C7_Witness ==
    /\ response.kind = "login"
    /\ response.status = 200
    /\ lastCall.op = "resetAttempts"
    /\ lastCall.isLocked

\* C8: the lockout life cycle.  The fifth failure locks for the tier-1
\* duration; an isLocked call before the expiry reports locked with
\* remainingTime = expiry - now (shrinking as the clock advances) and leaves
\* the record alone; from the expiry on isLocked reports not locked; the
\* first failure after resetAttempts returns attempts = 1 and no lock.
C8_LifeCycle ==
    [][\A i \in Identifiers :
          /\ (/\ lastCall'.op = "recordFailedAttempt" /\ lastCall'.id = i
              /\ getAttemptCount(loginAttempts, i) = 4)
             => /\ lastCall'.attempts = 5
                /\ lastCall'.lockedUntil = now + lockout5Attempts
          /\ (/\ lastCall'.op = "isLocked" /\ lastCall'.id = i
              /\ i \in DOMAIN loginAttempts
              /\ now < loginAttempts[i].lockedUntil)
             => /\ lastCall'.isLocked
                /\ lastCall'.remainingTime = loginAttempts[i].lockedUntil - now
                /\ loginAttempts' = loginAttempts
          /\ (/\ lastCall'.op = "tick"
              /\ isLockedResult(loginAttempts, i, now').isLocked)
             => isLockedResult(loginAttempts, i, now').remainingTime
                   < isLockedResult(loginAttempts, i, now).remainingTime
          /\ (/\ lastCall'.op = "isLocked" /\ lastCall'.id = i
              /\ i \in DOMAIN loginAttempts
              /\ loginAttempts[i].count = 5
              /\ now >= loginAttempts[i].lastAttempt + lockout5Attempts)
             => ~lastCall'.isLocked
          /\ (/\ lastCall'.op = "recordFailedAttempt" /\ lastCall'.id = i
              /\ i \notin DOMAIN loginAttempts)
             => /\ lastCall'.attempts = 1
                /\ lastCall'.lockedUntil = NoLock]_vars

\* an isLocked call five minutes into the tier-1 lock
C8_Witness ==
    /\ lastCall.op = "isLocked"
    /\ lastCall.isLocked
    /\ lastCall.remainingTime = lockout5Attempts - inactivityTimeout \div 2
    /\ getAttemptCount(loginAttempts, lastCall.id) = 5

\* C9 as claimed: under recordFailedAttempt, isLocked and sweep steps the
\* count of an identifier never decreases unless resetAttempts is called.
C9_CountMonotonic ==
    [][\A i \in Identifiers :
          ~WasReset(i)
          => getAttemptCount(loginAttempts', i)
                >= getAttemptCount(loginAttempts, i)]_vars

\* C9 as amended: the count of an identifier never decreases except by
\* resetAttempts or by the sweep deleting a record older than MAX_AGE.
C9_CountMonotonicUntilSweep ==
    [][\A i \in Identifiers :
          ~(WasReset(i) \/ WasSwept(i))
          => getAttemptCount(loginAttempts', i)
                >= getAttemptCount(loginAttempts, i)]_vars

\* a sweep that ran when a record was exactly MAX_AGE old and kept it
C9_Witness ==
    /\ lastCall.op = "cleanup"
    /\ \E i \in DOMAIN loginAttempts :
          /\ now - loginAttempts[i].firstAttempt = MAX_AGE
          /\ loginAttempts[i].count >= 5

\* superadmin, or the wildcard or admin_all among the direct permissions
Privileged(user) ==
    \/ user.role = "superadmin"
    \/ "*" \in user.permissions
    \/ "admin_all" \in user.permissions

\* C10 as claimed: hasPermission is true for every string when the
\* principal is privileged.
C10_PrivilegedHasEvery ==
    (permCall.op = "hasPermission" /\ Privileged(principal))
    => permCall.result

\* C10 as amended: hasPermission is true for every non-empty string,
\* defined or not, when the principal is privileged.
C10_PrivilegedHasEveryNonEmpty ==
    (permCall.op = "hasPermission" /\ Privileged(principal)
     /\ permCall.permission # "")
    => permCall.result

\* an undefined permission granted through the direct wildcard alone
C10_Witness ==
    /\ permCall.op = "hasPermission"
    /\ permCall.permission = "edit_x"
    /\ principal.role = "user"
    /\ principal.permissions = {"*"}
    /\ principal.roles = <<>>
    /\ permCall.result

\* the wildcard or admin_all reaches the principal through a role of the
\* file, and the principal is not privileged itself
PrivilegedByRoleOnly(user, store) ==
    /\ ~Privileged(user)
    /\ \E i \in DOMAIN user.roles :
          /\ user.roles[i] \in DOMAIN store
          /\ \/ "*" \in store[user.roles[i]]
             \/ "admin_all" \in store[user.roles[i]]

\* C11: when the wildcard or admin_all is held only through a role,
\* hasPermission is true for every (non-empty) permission string, as it is
\* for a principal that holds the wildcard directly.
C11_RoleWildcardHasEvery ==
    (permCall.op = "hasPermission" /\ permCall.permission # ""
     /\ PrivilegedByRoleOnly(principal, roleStore))
    => permCall.result

\* C12: adding a permission to a role the principal holds only grows the
\* effective set, and every hasPermission that was true stays true.
C12_Monotonic ==
    [][\A r \in KnownRoles :
          (/\ roleStore'[r] # roleStore[r]
           /\ \E i \in DOMAIN principal.roles : principal.roles[i] = r)
          => /\ getAllUserPermissions(principal, roleStore)
                    \subseteq getAllUserPermissions(principal, roleStore')
             /\ \A y \in PermStrings :
                    hasPermission(principal, y, roleStore)
                    => hasPermission(principal, y, roleStore')]_vars

\* x is among the direct permissions or among the permissions of a role
\* that the principal holds and the file defines
GrantedPlainly(user, store, x) ==
    \/ x \in user.permissions
    \/ \E i \in DOMAIN user.roles :
          /\ user.roles[i] \in DOMAIN store
          /\ x \in store[user.roles[i]]

\* C13: for a principal without superadmin, wildcard or admin_all, direct
\* or through a role, hasPermission(p, x) is true exactly when x is a
\* direct permission or a permission of a held role the file defines.
C13_PlainMembership ==
    (permCall.op = "hasPermission" /\ ~Privileged(principal)
     /\ ~PrivilegedByRoleOnly(principal, roleStore))
    => (permCall.result
        <=> GrantedPlainly(principal, roleStore, permCall.permission))

\* an undefined permission granted by the second role of the list, the
\* first one being unknown to the file
C13_Witness ==
    /\ permCall.op = "hasPermission"
    /\ permCall.permission = "edit_x"
    /\ principal.role = "user"
    /\ principal.permissions = {}
    /\ principal.roles = <<"ghost", "r1">>
    /\ roleStore["r1"] = {"edit_x"}
    /\ permCall.result

\* C14 as claimed: hasAnyPermission(p, xs) equals the disjunction of
\* hasPermission(p, x) over the x of xs, for every list xs.
C14_AnyIsDisjunction ==
    guardCall.op = "hasAnyPermission"
    => ((guardCall.status = "true")
        <=> \E i \in DOMAIN guardCall.permissions :
               hasPermission(principal, guardCall.permissions[i], roleStore))

\* C14 as amended: hasAnyPermission(p, xs) is true for a privileged
\* principal whatever xs is, and equals the disjunction otherwise.
C14_AnyIsDisjunctionUnlessPrivileged ==
    guardCall.op = "hasAnyPermission"
    => ((guardCall.status = "true")
        <=> \/ Privileged(principal)
            \/ \E i \in DOMAIN guardCall.permissions :
                  hasPermission(principal, guardCall.permissions[i],
                                roleStore))

\* the empty list answered with true for a direct wildcard
C14_Witness ==
    /\ guardCall.op = "hasAnyPermission"
    /\ guardCall.permissions = <<>>
    /\ principal.role = "user"
    /\ principal.permissions = {"*"}
    /\ guardCall.status = "true"

\* C15 as claimed: hasAllPermissions(p, xs) equals the conjunction of
\* hasPermission(p, x) over the x of xs, for every list xs.
C15_AllIsConjunction ==
    guardCall.op = "hasAllPermissions"
    => ((guardCall.status = "true")
        <=> \A i \in DOMAIN guardCall.permissions :
               hasPermission(principal, guardCall.permissions[i], roleStore))

\* C15 as amended: hasAllPermissions(p, xs) is true for a privileged
\* principal whatever xs is, and equals the conjunction otherwise.
C15_AllIsConjunctionUnlessPrivileged ==
    guardCall.op = "hasAllPermissions"
    => ((guardCall.status = "true")
        <=> \/ Privileged(principal)
            \/ \A i \in DOMAIN guardCall.permissions :
                  hasPermission(principal, guardCall.permissions[i],
                                roleStore))

\* a list holding the empty string answered with true for admin_all
C15_Witness ==
    /\ guardCall.op = "hasAllPermissions"
    /\ guardCall.permissions = <<"view_accounts", "">>
    /\ principal.role = "user"
    /\ principal.permissions = {"admin_all"}
    /\ guardCall.status = "true"

\* the last call decrypted a value of encrypt as it was returned, in a
\* process with the secret it was encrypted under
DecryptedUntouched ==
    /\ cipherCall.op = "decrypt"
    /\ cipherCall.tamper.region = "none"
    /\ cipherCall.key = ENCRYPTION_KEY

\* C16 as claimed: with a configured secret, decrypt(encrypt(x)) = x for
\* every non-empty plaintext x.
C16_RoundTrip ==
    DecryptedUntouched
    => (~cipherCall.threw /\ cipherCall.value = cipherCall.text)

\* C16 as amended: decrypt(encrypt(x)) is x with every surrogate that has
\* no partner replaced by U+FFFD, hence x itself when x is well-formed.
C16_RoundTripWellFormed ==
    DecryptedUntouched
    => /\ ~cipherCall.threw
       /\ cipherCall.value =
             [j \in DOMAIN cipherCall.text |->
                 IF cipherCall.text[j] = "U+D800" THEN "U+FFFD"
                 ELSE cipherCall.text[j]]

\* a well-formed text of two code units has come back
C16_Witness ==
    /\ DecryptedUntouched
    /\ cipherCall.text = <<"a", "U+FFFD">>
    /\ cipherCall.value = <<"a", "U+FFFD">>
    /\ ~cipherCall.threw

C18_FailsClosed ==
    ENCRYPTION_KEY.length < 32
    => /\ (cipherCall.op = "encrypt" /\ cipherCall.text # <<>>)
          => (cipherCall.threw /\ cipherCall.value = <<>>)
       /\ cipherCall.op = "emailUpdate" => cipherCall.status = "500"
       /\ storedEmail = <<>>
       /\ encryptions = <<>>

\* encrypt has thrown for a text under a secret of 31 characters
C18_Witness ==
    /\ ENCRYPTION_KEY.length = 31
    /\ cipherCall.op = "encrypt"
    /\ cipherCall.text = <<"a", "U+FFFD">>
    /\ cipherCall.threw

\* C19: two calls of encrypt with the same text under the same secret
\* return different values.
C19_FreshBlobs ==
    \A i, j \in DOMAIN encryptions :
        (i # j /\ encryptions[i].text = encryptions[j].text)
        => encryptions[i].blob # encryptions[j].blob

\* the same text has been encrypted twice
C19_Witness ==
    /\ Len(encryptions) >= 2
    /\ encryptions[1].text = encryptions[2].text

\* C20: a request let through while the principal lookup or a role lookup
\* failed is a request that is let through when every lookup answers.
C20_NoDefaultAllow ==
    (/\ guardCall.op = "requirePermission"
     /\ ~guardCall.userOk \/ guardCall.failed # {}
     /\ guardCall.status = "next")
    => requirePermission(guardCall.authenticated,
                         guardCall.forceDisablePermissions, TRUE, principal,
                         guardCall.permissions, roleStore) = "next"

\* C21: after a role's permission set or a principal's grants or role
\* memberships were changed through the admin routes, the next
\* requirePermission evaluation is decided on the changed state: its
\* answer is the one the resolver gives on the principal's current rows
\* and the roles' current permission rows
C21_NextCheckSeesEdit ==
    guardCall.op = "requirePermission"
        => guardCall.status
             = requirePermission(guardCall.authenticated,
                                 guardCall.forceDisablePermissions,
                                 guardCall.userOk, principal,
                                 guardCall.permissions, roleTable)


C23_GateBeforeVerification ==
    [][(lastCall'.op = "isLocked" /\ lastCall'.isLocked)
           => /\ response'.kind = "login"
              /\ response'.status = 429
              /\ handlers' = handlers
              /\ loginAttempts' = loginAttempts
              /\ sessions' = sessions]_vars

C23_Witness ==
    /\ lastCall.op = "isLocked"
    /\ lastCall.isLocked
    /\ lastCall.id \in Accounts
    /\ response.status = 429
    /\ \A s \in SessionIds : sessions[s].userId = 0


\* C24: a session that sessionValidation rejected is destroyed, and a
\* destroyed session is treated as authenticated again only through a
\* successful login that initializes it: no other step gives the stored
\* session a user
C24_ExpiredIsTerminal ==
    [][\A s \in SessionIds :
          /\ (/\ response'.kind = "request" /\ response'.sid = s
              /\ response'.reason \in {"server_restart", "inactivity_timeout"})
                 => sessions'[s] = NoSession
          /\ (sessions[s].userId = 0 /\ sessions'[s].userId # 0)
                 => /\ response'.kind = "login"
                    /\ response'.status = 200
                    /\ response'.sid = s
                    /\ sessions'[s].loginTime = now]_vars


\* C27: under every interleaving of concurrent requests on one session,
\* each stamping its own lastActivity and writing the session back at the
\* end of its response, the stored lastActivity of a session that stays
\* authenticated never decreases
C27_LastActivityMonotone ==
    [][\A s \in SessionIds :
          (sessions[s].userId # 0 /\ sessions'[s].userId # 0)
              => sessions'[s].lastActivity >= sessions[s].lastActivity]_vars


\* C25: the permissions that the login response and GET /api/auth/status
\* return for an authenticated session are the principal's effective
\* permission set as the resolver computes it, role-inherited permissions
\* and the wildcard included
C25_SessionPermissionsEffective ==
    (authInfo.op \in {"login", "status"} /\ authInfo.authenticated)
        => authInfo.permissions = getAllUserPermissions(principal, roleStore)


\* C26: a failed attempt that the browser's RateLimit module counts (one
\* not made during a lock) locks the identifier by the resulting count:
\* below 5 not at all, 5 to 9 for 1 minute, 10 to 19 for 5 minutes, exactly
\* 20 for 1 hour, more than 20 for 24 hours
C26_ClientLockDurations ==
    (clientCall.op = "recordFailedAttempt" /\ clientCall.counted)
        => clientCall.duration
             = IF clientCall.attempts < 5 THEN 0
               ELSE IF clientCall.attempts < 10 THEN 1 * 60 * 1000
               ELSE IF clientCall.attempts < 20 THEN 5 * 60 * 1000
               ELSE IF clientCall.attempts = 20 THEN 60 * 60 * 1000
               ELSE 24 * 60 * 60 * 1000


\* C28: the inactivity window slides: a non-exempt request on an
\* authenticated session that arrives no later than the timeout after the
\* session's previous activity is not rejected with inactivity_timeout and
\* keeps the session with its loginTime, however long ago the login was;
\* a rejection with inactivity_timeout means the gap exceeded the timeout
C28_SlidingWindow ==
    [][\A sid \in SessionIds, path \in Paths :
          (/\ Answered(sid, path)
           /\ NonExempt(path)
           /\ sessions[sid].userId # 0)
          => /\ now - sessions[sid].lastActivity <= inactivityTimeout
                => /\ response'.reason # "inactivity_timeout"
                   /\ sessions[sid].restartToken = RESTART_TOKEN
                        => /\ sessions'[sid].userId = sessions[sid].userId
                           /\ sessions'[sid].loginTime
                                = sessions[sid].loginTime
             /\ response'.reason = "inactivity_timeout"
                => now - sessions[sid].lastActivity > inactivityTimeout]_vars

\* a request served on a session older than the timeout
C28_Witness ==
    /\ response.kind = "request"
    /\ response.path = "/api/auth/status"
    /\ response.authenticated
    /\ sessions[response.sid].lastActivity = now
    /\ now - sessions[response.sid].loginTime > inactivityTimeout

\* C29: a successful login leaves the session with the user's id, username
\* and role, loginTime = lastActivity = now and the token of the running
\* process; a non-exempt request on a session not used since its login is
\* accepted when it arrives within the timeout in the same process
C29_FreshSessionAccepted ==
    [][\A sid \in SessionIds :
          /\ (/\ response'.kind = "login" /\ response'.status = 200
              /\ response'.sid = sid)
             => /\ sessions'[sid].userId # 0
                /\ sessions'[sid].username = response'.username
                /\ sessions'[sid].role # ""
                /\ sessions'[sid].loginTime = now
                /\ sessions'[sid].lastActivity = now
                /\ sessions'[sid].restartToken = RESTART_TOKEN
          /\ \A path \in Paths :
                (/\ Answered(sid, path)
                 /\ NonExempt(path)
                 /\ sessions[sid].userId # 0
                 /\ sessions[sid].restartToken = RESTART_TOKEN
                 /\ sessions[sid].lastActivity = sessions[sid].loginTime
                 /\ now - sessions[sid].loginTime <= inactivityTimeout)
                => /\ response'.status # 401
                   /\ response'.reason = ""
                   /\ sessions'[sid]
                        = [sessions[sid] EXCEPT !.lastActivity = now]]_vars

\* a session accepted half a timeout after its login
C29_Witness ==
    /\ response.kind = "request"
    /\ response.path = "/api/auth/status"
    /\ response.authenticated
    /\ sessions[response.sid].restartToken = RESTART_TOKEN
    /\ sessions[response.sid].lastActivity = now
    /\ sessions[response.sid].loginTime = now - inactivityTimeout \div 2

\* C30: a request on a public path or with a static-file extension, and a
\* request without authenticated session, passes sessionValidation: it is
\* not rejected and the stored session is exactly what it was, lastActivity
\* included
C30_ExemptUnchanged ==
    [][\A sid \in SessionIds, path \in Paths :
          (/\ Answered(sid, path)
           /\ (~NonExempt(path) \/ sessions[sid].userId = 0))
          => /\ response'.status # 401
             /\ response'.reason = ""
             /\ sessions'[sid] = sessions[sid]]_vars

\* a static file served on a session that has idled beyond the timeout
C30_Witness ==
    /\ response.kind = "request"
    /\ response.path \in staticFiles
    /\ sessions[response.sid].userId # 0
    /\ now - sessions[response.sid].lastActivity > inactivityTimeout


\* C31: a run of the periodic sweep deletes exactly the attempt records
\* whose first failure lies more than 24 hours in the past, locked or not,
\* and leaves every other record as it was
C31_SweepExactlyOld ==
    [][lastCall'.op = "cleanup"
          => /\ DOMAIN loginAttempts'
                  = {i \in DOMAIN loginAttempts :
                        now - loginAttempts[i].firstAttempt
                            <= 24 * 60 * 60 * 1000}
             /\ \A i \in DOMAIN loginAttempts' :
                    loginAttempts'[i] = loginAttempts[i]]_vars

\* a sweep that deleted one record and kept a younger, locked one
C31_Witness ==
    /\ lastCall.op = "cleanup"
    /\ now > MAX_AGE
    /\ \E i \in Identifiers : i \notin DOMAIN loginAttempts
    /\ \E i \in DOMAIN loginAttempts :
          /\ loginAttempts[i].firstAttempt = now
          /\ loginAttempts[i].lockedUntil > now


\* C32: requirePermission(perms) calls the next handler exactly when the
\* session is authenticated and either forceDisablePermissions is set or
\* the freshly loaded principal exists and is superadmin or passes
\* hasAnyPermission(principal, perms); otherwise it answers 401 (no
\* authenticated session, or no principal), 403 (denied) or 500
C32_GuardDecision ==
    guardCall.op = "requirePermission"
        => LET granted ==
                   /\ guardCall.authenticated
                   /\ \/ guardCall.forceDisablePermissions
                      \/ /\ guardCall.userOk
                         /\ \/ principal.role = "superadmin"
                            \/ hasAnyPermission(
                                   principal, guardCall.permissions,
                                   readableRoles(roleStore, guardCall.failed))
               unknown ==
                   \/ ~guardCall.authenticated
                   \/ ~guardCall.forceDisablePermissions /\ ~guardCall.userOk
           IN /\ guardCall.status \in {"next", "401", "403", "500"}
              /\ guardCall.status = "next" <=> granted
              /\ guardCall.status = "401" <=> unknown
              /\ guardCall.status \in {"403", "500"}
                    <=> (~granted /\ ~unknown)

\* a plain user without direct grants let through by a role's permission
C32_Witness ==
    /\ guardCall.op = "requirePermission"
    /\ guardCall.authenticated
    /\ ~guardCall.forceDisablePermissions
    /\ guardCall.userOk
    /\ principal.role = "user"
    /\ principal.permissions = {}
    /\ guardCall.status = "next"


\* the record of i holds a lock that has not run out
LockRunning(i) ==
    /\ i \in DOMAIN loginAttempts
    /\ loginAttempts[i].lockedUntil # NoLock
    /\ now < loginAttempts[i].lockedUntil

\* the step leaves the lock of i in place until its expiry or later, and an
\* isLocked(i) call of the step reports it
LockKept(i) ==
    /\ i \in DOMAIN loginAttempts'
    /\ loginAttempts'[i].lockedUntil >= loginAttempts[i].lockedUntil
    /\ (lastCall'.op = "isLocked" /\ lastCall'.id = i) => lastCall'.isLocked

\* C33 as claimed: a lock set by recordFailedAttempt stays in force until
\* its expiry under every operation (isLocked calls, calls for other
\* identifiers, the periodic sweep) other than resetAttempts(id)
C33_LockHoldsUnlessReset ==
    [][\A i \in Identifiers :
          (LockRunning(i) /\ ~WasReset(i)) => LockKept(i)]_vars

\* C33 as amended: the lock stays in force until its expiry unless
\* resetAttempts(id) is called or the sweep deletes the record because its
\* first failure is more than 24 hours old
C33_LockHoldsUnlessResetOrSwept ==
    [][\A i \in Identifiers :
          (LockRunning(i) /\ ~WasReset(i) /\ ~WasSwept(i)) => LockKept(i)]_vars

\* an isLocked call 15 minutes into a tier-2 lock, with a record of another
\* identifier in the map
C33_Witness ==
    /\ lastCall.op = "isLocked"
    /\ lastCall.isLocked
    /\ lastCall.remainingTime = lockout10Attempts - lockout5Attempts
    /\ \E j \in DOMAIN loginAttempts : j # lastCall.id


\* a step that gives session s a user is the end of a login request whose
\* handler verified the right password of an account
ActivatedByLogin(s) ==
    /\ response'.kind = "login"
    /\ response'.status = 200
    /\ response'.sid = s
    /\ \E h \in Handlers :
          /\ handlers[h].pc = "verify"
          /\ handlers[h].passwordOk
          /\ handlers[h].username \in Accounts
          /\ handlers[h].sid = s
          /\ handlers'[h] = IdleHandler

\* the step is the gate of a login request finding an expired lock, which
\* it removes from the record
GateClearedExpiredLock ==
    /\ lastCall'.op = "isLocked"
    /\ ~lastCall'.isLocked
    /\ lastCall'.id \in DOMAIN loginAttempts
    /\ loginAttempts[lastCall'.id].lockedUntil # NoLock
    /\ loginAttempts[lastCall'.id].lockedUntil <= now
    /\ loginAttempts'
         = MapSet(loginAttempts, lastCall'.id,
                  [loginAttempts[lastCall'.id] EXCEPT !.lockedUntil = NoLock])

\* C34 as claimed: a session gets a user only at the end of a login request
\* whose verification returned a principal; a login request answered
\* otherwise (401, 429, 400, 403, 500) leaves every session as it was; and
\* the attempt records change only when a request ends in failed
\* verification (or in success, which resets the record)
C34_ActiveOnlyThroughLogin ==
    [][/\ \A s \in SessionIds :
             sessions'[s] # sessions[s] => ActivatedByLogin(s)
       /\ (response'.kind = "login" /\ response'.status # 200)
             => sessions' = sessions
       /\ loginAttempts' # loginAttempts
             => /\ response'.kind = "login"
                /\ response'.status \in {200, 401}]_vars

\* C34 as amended: as above, except that the gate of any login request,
\* whatever its later outcome, removes an expired lock from the record
C34_ActiveOnlyThroughLoginGateClears ==
    [][/\ \A s \in SessionIds :
             sessions'[s] # sessions[s] => ActivatedByLogin(s)
       /\ (response'.kind = "login" /\ response'.status # 200)
             => sessions' = sessions
       /\ loginAttempts' # loginAttempts
             => \/ /\ response'.kind = "login"
                   /\ response'.status \in {200, 401}
                \/ GateClearedExpiredLock]_vars

\* a request rejected for its registration after its gate cleared an
\* expired lock: no session has a user, the record keeps its count
C34_Witness ==
    /\ response.kind = "login"
    /\ response.status = 403
    /\ \A s \in SessionIds : sessions[s].userId = 0
    /\ \E i \in DOMAIN loginAttempts :
          /\ loginAttempts[i].count = 5
          /\ loginAttempts[i].lockedUntil = NoLock


\* C35: a recordFailedAttempt(id), isLocked(id) or resetAttempts(id) call
\* changes the record of id only: every other identifier has a record after
\* the call exactly when it had one before, with the same count, first and
\* last failure timestamps and lock
C35_OnlyOwnRecord ==
    [][lastCall'.op \in {"recordFailedAttempt", "isLocked", "resetAttempts"}
          => \A j \in Identifiers \ {lastCall'.id} :
                /\ j \in DOMAIN loginAttempts' <=> j \in DOMAIN loginAttempts
                /\ j \in DOMAIN loginAttempts
                      => /\ j \in DOMAIN loginAttempts'
                         /\ loginAttempts'[j] = loginAttempts[j]]_vars

\* a reset of one identifier while another one is locked
C35_Witness ==
    /\ lastCall.op = "resetAttempts"
    /\ lastCall.isLocked
    /\ lastCall.id \notin DOMAIN loginAttempts
    /\ \E j \in DOMAIN loginAttempts :
          /\ loginAttempts[j].count >= 5
          /\ loginAttempts[j].lockedUntil > now

====
